---- MODULE Spec2Model ----
(***************************************************************************)
(* A model of the solicit HTTP/2 connection adapters:                      *)
(*   src/src/http/client.rs  ClientConnection, ClientSession               *)
(*   src/src/http/server.rs  ServerConnection, ServerSession               *)
(*   src/src/http/frame/ping.rs  PingFrame and its codec                   *)
(*   src/src/server/mod.rs  SimpleServer::new                              *)
(* The connection engine (HttpConnection), the session state               *)
(* (DefaultSessionState), the stream (DefaultStream) and the prioritizer   *)
(* (SimplePrioritizer) are used by these files but defined elsewhere in    *)
(* the repository; they are modelled from spec.md sections 4.2, 4.3, 4.6.  *)
(*                                                                         *)
(* The transport is taken to deliver: the receive side blocks until a      *)
(* frame is there (server/mod.rs:129) and the send side captures every     *)
(* frame, as the in-memory doubles of the unit tests do.  No GOAWAY frame  *)
(* is among the inbound frames.                                            *)
(***************************************************************************)
EXTENDS Integers, Sequences, FiniteSets, TLC

VARIABLES
    role,       \* "client": a ClientConnection, "server": a ServerConnection,
                \* "session": a ClientSession driven directly by its callbacks,
                \* "server_session": a ServerSession driven the same way,
                \* "codec": the PING codec, "failed": no server was made,
                \* "async_client": a ClientConnection owned by the service
                \* thread of an asynchronous Client
    sent,       \* conn.sender.sent: the outbound frame sequence
    nrecv,      \* number of frames consumed from the receive side
    streams,    \* the session state: streams in insertion order
    nsettings,  \* history: number of non-ACK SETTINGS frames received
    last,       \* history: the most recent call, its arguments and its result
    mark,       \* history: Len(sent) when the most recent call began
    simple_server,  \* a SimpleServer beyond its connection: the position
                \* inside handle_next, and the history of its handler calls
                \* and of the bodies it staged
    async_client,   \* the asynchronous Client: its request queue, the
                \* requests in flight and the history of its delegate calls
    settings    \* the connection's SettingsState

vars == <<role, sent, nrecv, streams, nsettings, last, mark,
          simple_server, async_client, settings>>

\* the two are idle in every specification that has no SimpleServer and no
\* asynchronous Client
NoSimpleServer == [pc |-> "none"]
NoClient == [pc |-> "none"]

(***************************** bounds **************************************)
\* calls that consume an inbound frame
MaxRecv == 2
\* frames in the outbound sequence
MaxSent == 3
\* bytes accumulated in one stream's body
MaxBody == 2
\* bytes drawn per DATA frame by send_next_data; the program's value is
\* 8 * 1024 (server.rs:186), scaled down to the size of the model's bodies
MAX_CHUNK_SIZE == 2
\* capacity of the request queue of an asynchronous Client
QueueCap == 2

(************************** values and results *****************************)
None == <<>>
Some(x) == <<x>>

Ok == "Ok"
\* HttpError::IoError: the transport failed (spec 6)
IoError == "IoError"
\* spec.md calls the error kind PreambleMismatch; the source names the
\* variant HttpError::UnableToConnect (client.rs:64, server/mod.rs:106)
PreambleMismatch == "PreambleMismatch"

\* stream ids that inbound frames and new_stream address
StreamIds == {1, 3}
\* stream ids a HEADERS event may carry at a server session: those of a
\* client's streams, and 0 and an even one
HeadersIds == StreamIds \cup {0, 2}
\* streams a server session holds at a time: as many as a client has ids
MaxStreams == Cardinality(StreamIds)
\* the stream ids of the frames a peer sends on a connection
PeerIds == {1}
\* stream ids a caller may put in a Request
RequestIds == {1, 2}
HeaderLists == {"h1", "h2"}
Bodies == {<<>>, <<1>>}
Chunks == {<<1>>, <<2>>}
\* bodies a server stages for a response
ResponseBodies == {<<>>, <<7, 8, 9>>}
\* opaque u64 values of PING frames (small ones: TLC integers are 32-bit)
OpaqueData == {0, 258}

(********************** SettingsState (settings.rs) ************************)
\* Default for SettingsState (settings.rs:33)
SettingsState_default == [max_concurrent_streams |-> 1]

\* variant of set_max_concurrent_streams used to test the claims below
SettingsState_set_max_concurrent_streams_raise(st, max_streams) ==
    [st EXCEPT !.max_concurrent_streams =
                   IF max_streams > @ THEN max_streams ELSE @]

\* Settings::set_max_concurrent_streams for SettingsState (settings.rs:44)
SettingsState_set_max_concurrent_streams(st, max_streams) ==
    [st EXCEPT !.max_concurrent_streams = max_streams]

\* Settings::max_concurrent_streams for SettingsState (settings.rs:49)
SettingsState_max_concurrent_streams(st) == st.max_concurrent_streams

(******************************* frames ************************************)
\* SettingsFrame::new() and SettingsFrame::new_ack()
SettingsFrame_new == [type |-> "SETTINGS", ack |-> FALSE]
SettingsFrame_new_ack == [type |-> "SETTINGS", ack |-> TRUE]

\* a variant of new_ack that drops the opaque data, as PingFrame::new does
PingFrame_new_ack_zero(opaque_data) ==
    [type |-> "PING", opaque_data |-> 0, flags |-> 1]

\* PingFrame::new_ack (ping.rs:44): ACK set, opaque data kept
PingFrame_new_ack(opaque_data) ==
    [type |-> "PING", opaque_data |-> opaque_data, flags |-> 1]

\* PingFrame::with_data (ping.rs:52)
PingFrame_with_data(opaque_data) ==
    [type |-> "PING", opaque_data |-> opaque_data, flags |-> 0]

\* PingFrame::is_ack / is_set (ping.rs:59, 92): (0x1 & flags) != 0
PingFrame_is_ack(f) == (f.flags % 2) = 1

HeadersFrame(stream_id, headers, end_stream) ==
    [type |-> "HEADERS", stream_id |-> stream_id, headers |-> headers,
     end_headers |-> TRUE, end_stream |-> end_stream]

DataFrame(stream_id, data, end_stream) ==
    [type |-> "DATA", stream_id |-> stream_id, data |-> data,
     end_stream |-> end_stream]

WindowUpdateFrame == [type |-> "WINDOW_UPDATE"]

\* the frames the peer may send
Inbound ==
    {SettingsFrame_new, SettingsFrame_new_ack, WindowUpdateFrame}
    \cup {PingFrame_with_data(d) : d \in OpaqueData}
    \cup {PingFrame_new_ack(0)}
    \cup {DataFrame(s, <<1>>, e) : s \in PeerIds, e \in BOOLEAN}
    \cup {HeadersFrame(s, "h1", e) : s \in PeerIds, e \in BOOLEAN}

IsSettings(f) == f.type = "SETTINGS"
IsSettingsNonAck(f) == f.type = "SETTINGS" /\ ~f.ack
IsPing(f) == f.type = "PING"
IsHeaders(f) == f.type = "HEADERS"
IsData(f) == f.type = "DATA"

(************************ DefaultStream (spec 4.3) *************************)
\* Stream::new(id) / DefaultStream::with_id(id)
Stream_new(id) ==
    [id |-> id, headers |-> None, body |-> <<>>,
     closed_local |-> FALSE, closed_remote |-> FALSE, data |-> None]

\* on_data_chunk(bytes) appends
Stream_new_data_chunk(st, data) == [st EXCEPT !.body = @ \o data]

\* on_headers(headers) stores; a second set replaces
Stream_set_headers(st, headers) == [st EXCEPT !.headers = Some(headers)]

\* on_end_remote() sets remote-closed
Stream_close_remote(st) == [st EXCEPT !.closed_remote = TRUE]

\* close(): the stream is closed (client.rs:343-353: after close() the
\* stream is `closed` and get_closed returns it)
Stream_close(st) == [st EXCEPT !.closed_local = TRUE, !.closed_remote = TRUE]

\* is_closed() returns local /\ remote
Stream_is_closed(st) == st.closed_local /\ st.closed_remote

Stream_is_closed_remote(st) == st.closed_remote

\* close_local(): sets local-closed
Stream_close_local(st) == [st EXCEPT !.closed_local = TRUE]

\* set_full_data(body): stage the whole outbound body; nothing more follows
\* it, so the stream is locally done once the buffer is drained
Stream_set_full_data(st, body) == [st EXCEPT !.data = Some(body)]

\* a stream with outbound data: data is staged and the local side is open
Stream_has_data(st) == st.data # None /\ ~st.closed_local


\* draw up to n bytes of the staged buffer; end_stream iff the buffer is now
\* empty (the stream is then closed locally)
Stream_get_data_chunk(st, n) ==
    LET buf == st.data[1]
        k == IF n < Len(buf) THEN n ELSE Len(buf)
        rest == SubSeq(buf, k + 1, Len(buf))
        st1 == [st EXCEPT !.data = Some(rest)]
    IN  [data |-> SubSeq(buf, 1, k),
         end_stream |-> rest = <<>>,
         stream |-> IF rest = <<>> THEN Stream_close_local(st1) ELSE st1]

(********************* DefaultSessionState (spec 4.3) **********************)
\* the position of the stream with this id, 0 when there is none
StreamIndex(ss, id) ==
    IF \E i \in 1..Len(ss) : ss[i].id = id
    THEN CHOOSE i \in 1..Len(ss) : ss[i].id = id
    ELSE 0

HasStream(ss, id) == StreamIndex(ss, id) # 0

\* get_stream_ref(id); only used where the stream exists
GetStream(ss, id) == ss[StreamIndex(ss, id)]

\* insert(stream): fails if the id is already present
insert_stream(ss, st) ==
    IF HasStream(ss, st.id) THEN ss ELSE Append(ss, st)

IsClosedP(st) == Stream_is_closed(st)
IsOpenP(st) == ~Stream_is_closed(st)

\* harvest_closed(): remove and yield all fully-closed streams in insertion
\* order; the rest stay in insertion order
get_closed(ss) ==
    [closed |-> SelectSeq(ss, IsClosedP), state |-> SelectSeq(ss, IsOpenP)]

(******************* ClientSession (client.rs:109-186) *********************)
\* variant of new_stream used to test the claims below
ClientSession_new_stream_replace(ss, stream_id) ==
    IF HasStream(ss, stream_id)
    THEN [ss EXCEPT ![StreamIndex(ss, stream_id)] = Stream_new(stream_id)]
    ELSE Append(ss, Stream_new(stream_id))

\* ClientSession::new_stream (client.rs:135)
ClientSession_new_stream(ss, stream_id) ==
    insert_stream(ss, Stream_new(stream_id))

\* a variant of get_closed that returns the closed streams and removes none
ClientSession_get_closed_keep(ss) ==
    [closed |-> get_closed(ss).closed, state |-> ss]

\* ClientSession::get_closed (client.rs:143)
ClientSession_get_closed(ss) == get_closed(ss)

\* variant of new_data_chunk used to test the claims below
ClientSession_new_data_chunk_first(ss, stream_id, data) ==
    IF ~HasStream(ss, stream_id) THEN ss
    ELSE [ss EXCEPT ![1] = Stream_new_data_chunk(@, data)]

\* Session::new_data_chunk for ClientSession (client.rs:149)
ClientSession_new_data_chunk(ss, stream_id, data) ==
    IF ~HasStream(ss, stream_id) THEN ss
    ELSE [ss EXCEPT ![StreamIndex(ss, stream_id)] =
              Stream_new_data_chunk(@, data)]

\* variant of new_headers used to test the claims below
ClientSession_new_headers_create(ss, stream_id, headers) ==
    IF ~HasStream(ss, stream_id)
    THEN insert_stream(ss, Stream_set_headers(Stream_new(stream_id), headers))
    ELSE [ss EXCEPT ![StreamIndex(ss, stream_id)] =
              Stream_set_headers(@, headers)]

\* Session::new_headers for ClientSession (client.rs:162)
ClientSession_new_headers(ss, stream_id, headers) ==
    IF ~HasStream(ss, stream_id) THEN ss
    ELSE [ss EXCEPT ![StreamIndex(ss, stream_id)] =
              Stream_set_headers(@, headers)]

\* variant of end_of_stream used to test the claims below
ClientSession_end_of_stream_remote(ss, stream_id) ==
    IF ~HasStream(ss, stream_id) THEN ss
    ELSE [ss EXCEPT ![StreamIndex(ss, stream_id)] = Stream_close_remote(@)]

\* Session::end_of_stream for ClientSession (client.rs:175)
ClientSession_end_of_stream(ss, stream_id) ==
    IF ~HasStream(ss, stream_id) THEN ss
    ELSE [ss EXCEPT ![StreamIndex(ss, stream_id)] = Stream_close(@)]

(******************** ServerSession (server.rs:56-98) **********************)
\* StreamFactory::create for SimpleFactory (server/mod.rs:27)
SimpleFactory_create(id) == Stream_new(id)

\* self.factory.create(id) (server.rs:81): the stream the factory makes, and
\* the factory with the call recorded (the ids create() was called with)
StreamFactory_create(factory, id) ==
    [factory |-> Append(factory, id), stream |-> SimpleFactory_create(id)]

\* Session::new_data_chunk for ServerSession (server.rs:59)
ServerSession_new_data_chunk(ss, stream_id, data) ==
    IF ~HasStream(ss, stream_id) THEN ss
    ELSE [ss EXCEPT ![StreamIndex(ss, stream_id)] =
              Stream_new_data_chunk(@, data)]

\* variants of new_headers used to test the claims below
ServerSession_new_headers_twice(ss, factory, stream_id, headers) ==
    IF HasStream(ss, stream_id)
    THEN [state |-> [ss EXCEPT ![StreamIndex(ss, stream_id)] =
                         Stream_set_headers(@, headers)],
          factory |-> factory]
    ELSE LET r == StreamFactory_create(factory, stream_id)
             q == StreamFactory_create(r.factory, stream_id)
         IN  [state |-> insert_stream(ss,
                            Stream_set_headers(q.stream, headers)),
              factory |-> q.factory]
ServerSession_new_headers_fresh(ss, factory, stream_id, headers) ==
    LET r == StreamFactory_create(factory, stream_id)
        rest == SelectSeq(ss, LAMBDA st : st.id # stream_id)
    IN  [state |-> insert_stream(rest, Stream_set_headers(r.stream, headers)),
         factory |-> r.factory]

\* Session::new_headers for ServerSession (server.rs:71), on the session's
\* two fields: the state and the factory
ServerSession_new_headers_sf(ss, factory, stream_id, headers) ==
    IF HasStream(ss, stream_id)
    THEN [state |-> [ss EXCEPT ![StreamIndex(ss, stream_id)] =
                         Stream_set_headers(@, headers)],
          factory |-> factory]
    ELSE LET r == StreamFactory_create(factory, stream_id)
         IN  [state |-> insert_stream(ss,
                            Stream_set_headers(r.stream, headers)),
              factory |-> r.factory]

\* the same, for a caller that looks at the state only
ServerSession_new_headers(ss, stream_id, headers) ==
    ServerSession_new_headers_sf(ss, <<>>, stream_id, headers).state

\* variant of end_of_stream used to test the claims below
ServerSession_end_of_stream_close(ss, stream_id) ==
    IF ~HasStream(ss, stream_id) THEN ss
    ELSE [ss EXCEPT ![StreamIndex(ss, stream_id)] = Stream_close(@)]

\* Session::end_of_stream for ServerSession (server.rs:87)
ServerSession_end_of_stream(ss, stream_id) ==
    IF ~HasStream(ss, stream_id) THEN ss
    ELSE [ss EXCEPT ![StreamIndex(ss, stream_id)] = Stream_close_remote(@)]

\* the Session the connection dispatches to: ClientConnection.session
\* (client.rs:21) or ServerSession::new(state, factory) (server.rs:162)
Session_new_data_chunk(r, ss, stream_id, data) ==
    IF r = "server" THEN ServerSession_new_data_chunk(ss, stream_id, data)
    ELSE ClientSession_new_data_chunk(ss, stream_id, data)
Session_new_headers(r, ss, stream_id, headers) ==
    IF r = "server" THEN ServerSession_new_headers(ss, stream_id, headers)
    ELSE ClientSession_new_headers(ss, stream_id, headers)
Session_end_of_stream(r, ss, stream_id) ==
    IF r = "server" THEN ServerSession_end_of_stream(ss, stream_id)
    ELSE ClientSession_end_of_stream(ss, stream_id)

(********************* HttpConnection (spec 4.2) ***************************)
\* The connection and its session while a call runs:
\*   c.sent the outbound sequence, c.streams the session state, c.role
\* faults: for each send the transport will be asked for, in order, whether
\* it fails; a send beyond the end of the sequence succeeds
ConnFaulty(r, s, ss, faults) ==
    [role |-> r, sent |-> s, streams |-> ss, faults |-> faults]
Conn(r, s, ss) == ConnFaulty(r, s, ss, <<>>)
Result(res, c) == [res |-> res, c |-> c]

\* SendFrame: enqueue a typed frame
send_frame(c, f) ==
    IF c.faults # <<>> /\ Head(c.faults)
    THEN Result(IoError, [c EXCEPT !.faults = Tail(@)])
    ELSE Result(Ok, [c EXCEPT !.sent = Append(@, f),
                              !.faults = IF @ = <<>> THEN @ ELSE Tail(@)])

\* send_headers: one HEADERS frame with END_HEADERS set and END_STREAM set
\* iff the caller requested it
send_headers(c, headers, stream_id, end_stream) ==
    send_frame(c, HeadersFrame(stream_id, headers, end_stream))

\* send_data: one DATA frame carrying buf with END_STREAM as requested
send_data(c, buf, stream_id, end_stream) ==
    send_frame(c, DataFrame(stream_id, buf, end_stream))

\* the dispatch of one parsed frame to the session (handle_next_frame, 4.2)
handle_frame(c, f) ==
    CASE IsData(f) ->
           LET s1 == Session_new_data_chunk(c.role, c.streams, f.stream_id, f.data)
               s2 == IF f.end_stream
                     THEN Session_end_of_stream(c.role, s1, f.stream_id)
                     ELSE s1
           IN  Result(Ok, [c EXCEPT !.streams = s2])
      [] IsHeaders(f) ->
           LET s1 == Session_new_headers(c.role, c.streams, f.stream_id, f.headers)
               s2 == IF f.end_stream
                     THEN Session_end_of_stream(c.role, s1, f.stream_id)
                     ELSE s1
           IN  Result(Ok, [c EXCEPT !.streams = s2])
      [] IsSettings(f) ->
           IF f.ack THEN Result(Ok, c)
           ELSE send_frame(c, SettingsFrame_new_ack)
      [] IsPing(f) ->
           IF PingFrame_is_ack(f) THEN Result(Ok, c)
           ELSE send_frame(c, PingFrame_new_ack(f.opaque_data))
      [] OTHER -> Result(Ok, c)

\* handle_next_frame(session): pull one frame (f), parse it, dispatch it
HttpConnection_handle_next_frame(c, f) == handle_frame(c, f)

(********************* SimplePrioritizer (spec 4.6) ************************)
\* the first stream, in insertion order, with outbound data; 0 if none
FirstWithData(ss) ==
    IF \E i \in 1..Len(ss) : Stream_has_data(ss[i])
    THEN CHOOSE i \in 1..Len(ss) :
             /\ Stream_has_data(ss[i])
             /\ \A j \in 1..(i - 1) : ~Stream_has_data(ss[j])
    ELSE 0

\* next_chunk(buf): scan the streams in insertion order, pop the first with
\* outbound data, write up to buf.len() bytes
SimplePrioritizer_get_next_chunk(ss, buflen) ==
    LET i == FirstWithData(ss)
    IN  IF i = 0 THEN [some |-> FALSE, state |-> ss]
        ELSE LET ch == Stream_get_data_chunk(ss[i], buflen)
             IN  [some |-> TRUE, stream_id |-> ss[i].id, data |-> ch.data,
                  end_stream |-> ch.end_stream,
                  state |-> [ss EXCEPT ![i] = ch.stream]]

\* send_next_data(prioritizer): emit a DATA frame for the prioritizer's next
\* chunk and return Sent; return Nothing if the prioritizer has nothing
HttpConnection_send_next_data(c, buflen) ==
    LET ch == SimplePrioritizer_get_next_chunk(c.streams, buflen)
    IN  IF ~ch.some THEN [res |-> Ok, status |-> "Nothing", c |-> c]
        ELSE LET r == send_data([c EXCEPT !.streams = ch.state],
                                ch.data, ch.stream_id, ch.end_stream)
             IN  [res |-> r.res, status |-> "Sent", c |-> r.c]

\* expect_settings(session): pull exactly one frame (f); fail with
\* PreambleMismatch unless it is a non-ACK SETTINGS; then process it
expect_settings(c, f) ==
    IF IsSettingsNonAck(f) THEN handle_frame(c, f)
    ELSE Result(PreambleMismatch, c)

(**************** ClientConnection (client.rs:13-94) ***********************)
\* a variant of read_preface that handles the next frame, whatever it is
ClientConnection_read_preface_any(c, f) ==
    HttpConnection_handle_next_frame(c, f)

\* a variant of read_preface that checks the frame and does not process it
ClientConnection_read_preface_noack(c, f) ==
    IF IsSettingsNonAck(f) THEN Result(Ok, c) ELSE Result(PreambleMismatch, c)

\* ClientConnection::read_preface (client.rs:65)
ClientConnection_read_preface(c, f) == expect_settings(c, f)

\* a variant of init that drops the result of read_preface (no try!)
ClientConnection_init_unchecked(c, f) ==
    Result(Ok, ClientConnection_read_preface(c, f).c)

\* ClientConnection::init (client.rs:48)
ClientConnection_init(c, f) ==
    LET r == ClientConnection_read_preface(c, f)
    IN  IF r.res # Ok THEN r ELSE Result(Ok, r.c)

\* a variant of send_request that never ends the stream on HEADERS
ClientConnection_send_request_open(c, req) ==
    LET r1 == send_headers(c, req.headers, req.stream_id, FALSE)
    IN  send_data(r1.c, req.body, req.stream_id, TRUE)

\* a variant of send_request whose DATA frame leaves the stream open
ClientConnection_send_request_noend(c, req) ==
    LET end_of_stream == Len(req.body) = 0
        r1 == send_headers(c, req.headers, req.stream_id, end_of_stream)
    IN  IF ~end_of_stream
        THEN send_data(r1.c, req.body, req.stream_id, FALSE)
        ELSE r1

\* a variant of send_request that moves the request to the next odd id
ClientConnection_send_request_odd(c, req) ==
    LET id == IF req.stream_id % 2 = 0 THEN req.stream_id + 1
              ELSE req.stream_id
        end_of_stream == Len(req.body) = 0
        r1 == send_headers(c, req.headers, id, end_of_stream)
    IN  IF ~end_of_stream
        THEN send_data(r1.c, req.body, id, TRUE)
        ELSE r1

\* a variant of send_request that queues the body before the headers
ClientConnection_send_request_swapped(c, req) ==
    LET end_of_stream == Len(req.body) = 0
    IN  IF ~end_of_stream
        THEN send_headers(send_data(c, req.body, req.stream_id, TRUE).c,
                          req.headers, req.stream_id, end_of_stream)
        ELSE send_headers(c, req.headers, req.stream_id, end_of_stream)

\* a variant of send_request that goes on to the body whatever became of
\* the headers
ClientConnection_send_request_notry(c, req) ==
    LET end_of_stream == Len(req.body) = 0
        r1 == send_headers(c, req.headers, req.stream_id, end_of_stream)
    IN  IF ~end_of_stream
        THEN LET r2 == send_data(r1.c, req.body, req.stream_id, TRUE)
             IN  IF r2.res # Ok THEN r2 ELSE Result(r1.res, r2.c)
        ELSE r1

\* ClientConnection::send_request (client.rs:74)
ClientConnection_send_request(c, req) ==
    LET end_of_stream == Len(req.body) = 0
        r1 == send_headers(c, req.headers, req.stream_id, end_of_stream)
    IN  IF r1.res # Ok THEN r1
        ELSE IF ~end_of_stream
        THEN LET r2 == send_data(r1.c, req.body, req.stream_id, TRUE)
             IN  IF r2.res # Ok THEN r2 ELSE Result(Ok, r2.c)
        ELSE Result(Ok, r1.c)

\* a variant of handle_next_frame that consumes the frame and drops it
ClientConnection_handle_next_frame_drop(c, f) == Result(Ok, c)

\* ClientConnection::handle_next_frame (client.rs:91)
ClientConnection_handle_next_frame(c, f) ==
    HttpConnection_handle_next_frame(c, f)

(**************** ServerConnection (server.rs:102-194) *********************)
\* ServerConnection::read_preface (server.rs:153)
ServerConnection_read_preface(c, f) == expect_settings(c, f)

\* variant of init used to test the claims below
ServerConnection_init_readfirst(c, f) ==
    LET r1 == ServerConnection_read_preface(c, f)
    IN  IF r1.res # Ok THEN r1 ELSE send_frame(r1.c, SettingsFrame_new)

\* ServerConnection::init (server.rs:144)
ServerConnection_init(c, f) ==
    LET r1 == send_frame(c, SettingsFrame_new)
    IN  IF r1.res # Ok THEN r1
        ELSE LET r2 == ServerConnection_read_preface(r1.c, f)
             IN  IF r2.res # Ok THEN r2 ELSE Result(Ok, r2.c)

\* variant of handle_next_frame used to test the claims below
ServerConnection_handle_next_frame_noend(c, f) ==
    IF IsData(f) \/ IsHeaders(f)
    THEN HttpConnection_handle_next_frame(c, [f EXCEPT !.end_stream = FALSE])
    ELSE HttpConnection_handle_next_frame(c, f)

\* ServerConnection::handle_next_frame (server.rs:161)
ServerConnection_handle_next_frame(c, f) ==
    HttpConnection_handle_next_frame(c, f)

\* ServerConnection::start_response (server.rs:172)
ServerConnection_start_response(c, headers, stream_id, end_stream) ==
    send_headers(c, headers, stream_id, end_stream)

\* variants of send_next_data used to test the claims below: a buffer one
\* byte too long; a call that reports Sent without drawing a chunk; a
\* prioritizer that serves the stream inserted last
ServerConnection_send_next_data_long(c) ==
    HttpConnection_send_next_data(c, MAX_CHUNK_SIZE + 1)
ServerConnection_send_next_data_idle(c) ==
    IF FirstWithData(c.streams) = 0
    THEN HttpConnection_send_next_data(c, MAX_CHUNK_SIZE)
    ELSE [res |-> Ok, status |-> "Sent", c |-> c]
ServerConnection_send_next_data_last(c) ==
    LET ss == c.streams
        rev == [i \in 1..Len(ss) |-> ss[Len(ss) + 1 - i]]
        r == HttpConnection_send_next_data([c EXCEPT !.streams = rev],
                                           MAX_CHUNK_SIZE)
    IN  [r EXCEPT !.c.streams =
            [i \in 1..Len(ss) |-> r.c.streams[Len(ss) + 1 - i]]]

\* ServerConnection::send_next_data (server.rs:183)
ServerConnection_send_next_data(c) ==
    HttpConnection_send_next_data(c, MAX_CHUNK_SIZE)

\* stream.set_full_data(body) on conn.state.get_stream_mut(id).unwrap()
\* (server/mod.rs:173)
ServerConnection_set_full_data(ss, stream_id, body) ==
    [ss EXCEPT ![StreamIndex(ss, stream_id)] = Stream_set_full_data(@, body)]

(********************* SimpleServer (server/mod.rs) ***********************)
\* the 24 bytes a client opens the connection with (server/mod.rs:105)
CLIENT_PREFACE == "PRI * HTTP/2.0\r\n\r\nSM\r\n\r\n"

\* 24-byte openings a transport may deliver: the preface, and two that
\* differ from it in the version and in the last byte
Prefaces ==
    {CLIENT_PREFACE,
     "PRI * HTTP/1.1\r\n\r\nSM\r\n\r\n",
     "PRI * HTTP/2.0\r\n\r\nSM\r\n\r\r"}

\* conn.send_settings(sender) (server/mod.rs:120)
send_settings(c) == send_frame(c, SettingsFrame_new)

\* variant of new used to test the claims below
SimpleServer_new_nopreface(c, preface, f) ==
    expect_settings(send_settings(c).c, f)

\* SimpleServer::new (server/mod.rs:101): the 24 bytes read are compared to
\* the preface, then the own settings are sent and the peer's are expected
SimpleServer_new(c, preface, f) ==
    IF preface # CLIENT_PREFACE THEN Result(PreambleMismatch, c)
    ELSE LET s == send_settings(c)
         IN  IF s.res # Ok THEN s ELSE expect_settings(s.c, f)

Requests ==
    [stream_id : RequestIds, headers : {"h1"}, body : Bodies]

(****************************** actions ************************************)

\* conn.init() on a ClientConnection: the handshake, made before any frame
\* has been received or queued
ClientInit ==
    /\ role = "client"
    /\ nrecv = 0 /\ sent = <<>>
    /\ \E f \in Inbound :
         LET r == ClientConnection_init(Conn(role, sent, streams), f)
         IN  /\ sent' = r.c.sent
             /\ streams' = r.c.streams
             /\ nrecv' = nrecv + 1
             /\ nsettings' = IF IsSettingsNonAck(f) THEN nsettings + 1
                               ELSE nsettings
             /\ last' = [op |-> "init", frame |-> f, res |-> r.res]
             /\ mark' = Len(sent)
    /\ UNCHANGED <<role, simple_server, async_client, settings>>

\* conn.send_request(req) on a ClientConnection
ClientSendRequest ==
    /\ role = "client"
    /\ Len(sent) + 2 <= MaxSent
    /\ \E req \in Requests :
         LET r == ClientConnection_send_request(Conn(role, sent, streams), req)
         IN  /\ sent' = r.c.sent
             /\ streams' = r.c.streams
             /\ last' = [op |-> "send_request", req |-> req, res |-> r.res]
             /\ mark' = Len(sent)
    /\ UNCHANGED <<role, nrecv, nsettings,
                 simple_server, async_client, settings>>

\* conn.handle_next_frame() on a ClientConnection
ClientHandleNextFrame ==
    /\ role = "client"
    /\ nrecv < MaxRecv
    /\ Len(sent) < MaxSent
    /\ \E f \in Inbound :
         LET r == ClientConnection_handle_next_frame(Conn(role, sent, streams), f)
         IN  /\ sent' = r.c.sent
             /\ streams' = r.c.streams
             /\ nrecv' = nrecv + 1
             /\ nsettings' = IF IsSettingsNonAck(f) THEN nsettings + 1
                               ELSE nsettings
             /\ last' = [op |-> "handle_next_frame", frame |-> f, res |-> r.res]
             /\ mark' = Len(sent)
    /\ UNCHANGED <<role, simple_server, async_client, settings>>

\* conn.session.new_stream(id)
ClientNewStream ==
    /\ role = "client"
    /\ \E id \in PeerIds :
         /\ streams' = ClientSession_new_stream(streams, id)
         /\ last' = [op |-> "new_stream", stream_id |-> id]
    /\ mark' = Len(sent)
    /\ UNCHANGED <<role, sent, nrecv, nsettings,
                 simple_server, async_client, settings>>

\* conn.session.get_closed()
ClientGetClosed ==
    /\ role = "client"
    /\ LET r == ClientSession_get_closed(streams)
       IN  /\ streams' = r.state
           /\ last' = [op |-> "get_closed", closed |-> r.closed, before |-> streams]
    /\ mark' = Len(sent)
    /\ UNCHANGED <<role, sent, nrecv, nsettings,
                 simple_server, async_client, settings>>

\* conn.init() on a ServerConnection: the handshake, made before any frame
\* has been received or queued
ServerInit ==
    /\ role = "server"
    /\ nrecv = 0 /\ sent = <<>>
    /\ \E f \in Inbound :
         LET r == ServerConnection_init(Conn(role, sent, streams), f)
         IN  /\ sent' = r.c.sent
             /\ streams' = r.c.streams
             /\ nrecv' = nrecv + 1
             /\ nsettings' = IF IsSettingsNonAck(f) THEN nsettings + 1
                               ELSE nsettings
             /\ last' = [op |-> "init", frame |-> f, res |-> r.res]
             /\ mark' = Len(sent)
    /\ UNCHANGED <<role, simple_server, async_client, settings>>

\* conn.handle_next_frame() on a ServerConnection
ServerHandleNextFrame ==
    /\ role = "server"
    /\ nrecv < MaxRecv
    /\ Len(sent) < MaxSent
    /\ \E f \in Inbound :
         LET r == ServerConnection_handle_next_frame(Conn(role, sent, streams), f)
         IN  /\ sent' = r.c.sent
             /\ streams' = r.c.streams
             /\ nrecv' = nrecv + 1
             /\ nsettings' = IF IsSettingsNonAck(f) THEN nsettings + 1
                               ELSE nsettings
             /\ last' = [op |-> "handle_next_frame", frame |-> f, res |-> r.res]
             /\ mark' = Len(sent)
    /\ UNCHANGED <<role, simple_server, async_client, settings>>

\* conn.start_response(headers, stream_id, end_stream)
ServerStartResponse ==
    /\ role = "server"
    /\ Len(sent) < MaxSent
    /\ \E id \in RequestIds, e \in BOOLEAN :
         LET r == ServerConnection_start_response(
                      Conn(role, sent, streams), "h2", id, e)
         IN  /\ sent' = r.c.sent
             /\ streams' = r.c.streams
             /\ last' = [op |-> "start_response", stream_id |-> id,
                         headers |-> "h2", end_stream |-> e, res |-> r.res]
             /\ mark' = Len(sent)
    /\ UNCHANGED <<role, nrecv, nsettings,
                 simple_server, async_client, settings>>

\* conn.state.get_stream_mut(id).unwrap().set_full_data(body)
ServerSetFullData ==
    /\ role = "server"
    /\ \E id \in PeerIds, body \in ResponseBodies :
         /\ HasStream(streams, id)
         /\ streams' = ServerConnection_set_full_data(streams, id, body)
         /\ last' = [op |-> "set_full_data", stream_id |-> id, body |-> body]
    /\ mark' = Len(sent)
    /\ UNCHANGED <<role, sent, nrecv, nsettings,
                 simple_server, async_client, settings>>

\* conn.send_next_data()
ServerSendNextData ==
    /\ role = "server"
    /\ Len(sent) < MaxSent
    /\ LET r == ServerConnection_send_next_data(Conn(role, sent, streams))
       IN  /\ sent' = r.c.sent
           /\ streams' = r.c.streams
           /\ last' = [op |-> "send_next_data", status |-> r.status,
                       res |-> r.res, before |-> streams]
    /\ mark' = Len(sent)
    /\ UNCHANGED <<role, nrecv, nsettings,
                 simple_server, async_client, settings>>

\* conn.state.get_closed() (server/mod.rs:192)
ServerGetClosed ==
    /\ role = "server"
    /\ LET r == get_closed(streams)
       IN  /\ streams' = r.state
           /\ last' = [op |-> "get_closed", closed |-> r.closed, before |-> streams]
    /\ mark' = Len(sent)
    /\ UNCHANGED <<role, sent, nrecv, nsettings,
                 simple_server, async_client, settings>>

\* SimpleServer::new(stream, handler): the stream is fully uninitialized; f is
\* the frame that follows the 24 bytes. On Err no server exists afterwards.
SimpleServerNew ==
    /\ role = "server" /\ nrecv = 0 /\ sent = <<>> /\ last.op = "none"
    /\ \E preface \in Prefaces, f \in Inbound :
         LET r == SimpleServer_new(Conn(role, sent, streams), preface, f)
             read == preface = CLIENT_PREFACE
         IN  /\ sent' = r.c.sent
             /\ streams' = r.c.streams
             /\ nrecv' = IF read THEN 1 ELSE 0
             /\ nsettings' = IF read /\ IsSettingsNonAck(f) THEN nsettings + 1
                              ELSE nsettings
             /\ role' = IF r.res = Ok THEN role ELSE "failed"
             /\ last' = [op |-> "new", preface |-> preface, frame |-> f,
                         res |-> r.res]
    /\ mark' = Len(sent)
    /\ UNCHANGED <<simple_server, async_client, settings>>

Init ==
    /\ role \in {"client", "server"}
    /\ sent = <<>>
    /\ nrecv = 0
    /\ streams = <<>>
    /\ nsettings = 0
    /\ last = [op |-> "none"]
    /\ mark = 0
    /\ simple_server = NoSimpleServer
    /\ async_client = NoClient
    /\ settings = SettingsState_default

Next ==
    \/ ClientInit
    \/ ClientSendRequest
    \/ ClientHandleNextFrame
    \/ ClientNewStream
    \/ ClientGetClosed
    \/ ServerInit
    \/ ServerHandleNextFrame
    \/ ServerStartResponse
    \/ ServerSetFullData
    \/ ServerSendNextData
    \/ ServerGetClosed
    \/ SimpleServerNew

Spec == Init /\ [][Next]_vars

(*********** a ClientSession driven directly by its callbacks **************)
\* (as client.rs:320-356 drives it: no connection, the events are the inputs)
\* session.new_stream(id)
SessNewStream ==
    /\ role = "session"
    /\ \E id \in StreamIds :
         /\ streams' = ClientSession_new_stream(streams, id)
         /\ last' = [op |-> "new_stream", stream_id |-> id, before |-> streams]
    /\ UNCHANGED <<role, sent, nrecv, nsettings, mark,
                 simple_server, async_client, settings>>

\* session.new_data_chunk(id, data)
SessNewDataChunk ==
    /\ role = "session"
    /\ \E id \in StreamIds, data \in Chunks :
         /\ HasStream(streams, id) =>
                Len(GetStream(streams, id).body) + Len(data) <= MaxBody
         /\ streams' = ClientSession_new_data_chunk(streams, id, data)
         /\ last' = [op |-> "new_data_chunk", stream_id |-> id, data |-> data,
                     before |-> streams]
    /\ UNCHANGED <<role, sent, nrecv, nsettings, mark,
                 simple_server, async_client, settings>>

\* session.new_headers(id, headers)
SessNewHeaders ==
    /\ role = "session"
    /\ \E id \in StreamIds, h \in HeaderLists :
         /\ streams' = ClientSession_new_headers(streams, id, h)
         /\ last' = [op |-> "new_headers", stream_id |-> id, headers |-> h,
                     before |-> streams]
    /\ UNCHANGED <<role, sent, nrecv, nsettings, mark,
                 simple_server, async_client, settings>>

\* session.end_of_stream(id)
SessEndOfStream ==
    /\ role = "session"
    /\ \E id \in StreamIds :
         /\ streams' = ClientSession_end_of_stream(streams, id)
         /\ last' = [op |-> "end_of_stream", stream_id |-> id,
                     before |-> streams]
    /\ UNCHANGED <<role, sent, nrecv, nsettings, mark,
                 simple_server, async_client, settings>>

\* session.get_closed()
SessGetClosed ==
    /\ role = "session"
    /\ LET r == ClientSession_get_closed(streams)
       IN  /\ streams' = r.state
           /\ last' = [op |-> "get_closed", closed |-> r.closed,
                       before |-> streams]
    /\ UNCHANGED <<role, sent, nrecv, nsettings, mark,
                 simple_server, async_client, settings>>

(*********** a ServerSession driven directly by its callbacks **************)
\* (as server.rs:204-257 drives it; the factory starts with no call recorded)
\* session.new_headers(id, headers)
SrvSessNewHeaders ==
    /\ role = "server_session"
    /\ \E id \in HeadersIds, h \in HeaderLists :
         LET r == ServerSession_new_headers_sf(streams, <<>>, id, h)
         IN  /\ HasStream(streams, id) \/ Len(streams) < MaxStreams
             /\ streams' = r.state
             /\ last' = [op |-> "new_headers", stream_id |-> id,
                         headers |-> h, created |-> r.factory,
                         before |-> streams]
    /\ UNCHANGED <<role, sent, nrecv, nsettings, mark,
                 simple_server, async_client, settings>>

\* session.new_data_chunk(id, data)
SrvSessNewDataChunk ==
    /\ role = "server_session"
    /\ \E id \in StreamIds, data \in Chunks :
         /\ HasStream(streams, id) =>
                Len(GetStream(streams, id).body) + Len(data) <= MaxBody
         /\ streams' = ServerSession_new_data_chunk(streams, id, data)
         /\ last' = [op |-> "new_data_chunk", stream_id |-> id, data |-> data,
                     before |-> streams]
    /\ UNCHANGED <<role, sent, nrecv, nsettings, mark,
                 simple_server, async_client, settings>>

\* session.end_of_stream(id)
SrvSessEndOfStream ==
    /\ role = "server_session"
    /\ \E id \in StreamIds :
         /\ streams' = ServerSession_end_of_stream(streams, id)
         /\ last' = [op |-> "end_of_stream", stream_id |-> id,
                     before |-> streams]
    /\ UNCHANGED <<role, sent, nrecv, nsettings, mark,
                 simple_server, async_client, settings>>

\* conn.state.get_closed() on the server's session state (server/mod.rs:192)
SrvSessGetClosed ==
    /\ role = "server_session"
    /\ LET r == get_closed(streams)
       IN  /\ streams' = r.state
           /\ last' = [op |-> "get_closed", closed |-> r.closed,
                       before |-> streams]
    /\ UNCHANGED <<role, sent, nrecv, nsettings, mark,
                 simple_server, async_client, settings>>

InitSession ==
    /\ role \in {"session", "server_session"}
    /\ sent = <<>>
    /\ nrecv = 0
    /\ streams = <<>>
    /\ nsettings = 0
    /\ last = [op |-> "none"]
    /\ mark = 0
    /\ simple_server = NoSimpleServer
    /\ async_client = NoClient
    /\ settings = SettingsState_default

NextSession ==
    \/ SessNewStream
    \/ SessNewDataChunk
    \/ SessNewHeaders
    \/ SessEndOfStream
    \/ SessGetClosed
    \/ SrvSessNewHeaders
    \/ SrvSessNewDataChunk
    \/ SrvSessEndOfStream
    \/ SrvSessGetClosed

SpecSession == InitSession /\ [][NextSession]_vars

(********************* PING codec (frame/ping.rs) **************************)
\* Unsigned integers of the codec are written as their octets, most
\* significant first (base 256): a u64 is a sequence of 8 octets, and the
\* shifts and ors of the code act on these.
PING_FRAME_LEN == 8
PING_FRAME_TYPE == 6

RECURSIVE BitOr(_, _)
\* a | b on octets
BitOr(a, b) ==
    IF a = 0 THEN b
    ELSE IF b = 0 THEN a
    ELSE (IF a % 2 = 1 \/ b % 2 = 1 THEN 1 ELSE 0)
             + 2 * BitOr(a \div 2, b \div 2)

\* an octet widened to u64 (`as u64`)
U64(b) == <<0, 0, 0, 0, 0, 0, 0, b>>
\* x << 8k and x >> 8k on a u64: bits shifted out are lost
U64_shl(x, k) == [i \in 1..8 |-> IF i + k <= 8 THEN x[i + k] ELSE 0]
U64_shr(x, k) == [i \in 1..8 |-> IF i - k >= 1 THEN x[i - k] ELSE 0]
\* x | y on u64
U64_or(x, y) == [i \in 1..8 |-> BitOr(x[i], y[i])]
\* x as u32: the low 32 bits
U64_as_u32(x) == SubSeq(x, 5, 8)

\* unpack_octets_4!(buf, offset, u64) (used at ping.rs:82): the four octets
\* from offset on, shifted by 24, 16, 8 and 0 bits and or-ed
unpack_octets_4(buf, offset) ==
    U64_or(U64_or(U64_shl(U64(buf[offset + 1]), 3),
                  U64_shl(U64(buf[offset + 2]), 2)),
           U64_or(U64_shl(U64(buf[offset + 3]), 1),
                  U64(buf[offset + 4])))

\* RawFrame: the header (payload length, type, flags, stream id) and the
\* payload octets
RawFrame(header, payload) == [header |-> header, payload |-> payload]

\* the 9-octet header: 3 octets length, type, flags, 4 octets stream id with
\* the top bit written as 0
pack_header(h) ==
    <<(h[1] \div 65536) % 256, (h[1] \div 256) % 256, h[1] % 256,
      h[2], h[3],
      (h[4] \div 16777216) % 128, (h[4] \div 65536) % 256,
      (h[4] \div 256) % 256, h[4] % 256>>
unpack_header(b) ==
    <<b[1] * 65536 + b[2] * 256 + b[3], b[4], b[5],
      (b[6] % 128) * 16777216 + b[7] * 65536 + b[8] * 256 + b[9]>>

\* builder.write_u32(w): the four octets of w, most significant first
write_u32(buf, w) == buf \o w
\* builder.write_header(header)
write_header(buf, h) == buf \o pack_header(h)
\* the RawFrame a receiver makes of serialized octets
RawFrame_parse(buf) ==
    RawFrame(unpack_header(SubSeq(buf, 1, 9)), SubSeq(buf, 10, Len(buf)))

\* variants of from_raw and serialize_into used to test the claims below
PingFrame_from_raw_noshift(raw) ==
    IF raw.header[1] # PING_FRAME_LEN THEN None
    ELSE IF raw.header[2] # PING_FRAME_TYPE THEN None
    ELSE IF raw.header[4] # 0 THEN None
    ELSE Some([type |-> "PING",
               opaque_data |-> U64_or(unpack_octets_4(raw.payload, 0),
                                      unpack_octets_4(raw.payload, 4)),
               flags |-> raw.header[3]])
PingFrame_serialize_into_swapped(f) ==
    write_u32(write_u32(write_header(<<>>,
                  <<PING_FRAME_LEN, PING_FRAME_TYPE, f.flags, 0>>),
                  U64_as_u32(f.opaque_data)),
              U64_as_u32(U64_shr(f.opaque_data, 4)))

PingFrame_from_raw_anystream(raw) ==
    IF raw.header[1] # PING_FRAME_LEN THEN None
    ELSE IF raw.header[2] # PING_FRAME_TYPE THEN None
    ELSE Some([type |-> "PING",
               opaque_data |->
                   U64_or(U64_shl(unpack_octets_4(raw.payload, 0), 4),
                          unpack_octets_4(raw.payload, 4)),
               flags |-> raw.header[3]])

\* Frame::from_raw for PingFrame (ping.rs:71)
PingFrame_from_raw(raw) ==
    IF raw.header[1] # PING_FRAME_LEN THEN None
    ELSE IF raw.header[2] # PING_FRAME_TYPE THEN None
    ELSE IF raw.header[4] # 0 THEN None
    ELSE Some([type |-> "PING",
               opaque_data |->
                   U64_or(U64_shl(unpack_octets_4(raw.payload, 0), 4),
                          unpack_octets_4(raw.payload, 4)),
               flags |-> raw.header[3]])

\* Frame::get_header for PingFrame (ping.rs:100)
PingFrame_get_header(f) == <<PING_FRAME_LEN, PING_FRAME_TYPE, f.flags, 0>>

\* FrameIR::serialize_into for PingFrame (ping.rs:106)
PingFrame_serialize_into(f) ==
    write_u32(write_u32(write_header(<<>>, PingFrame_get_header(f)),
                  U64_as_u32(U64_shr(f.opaque_data, 4))),
              U64_as_u32(f.opaque_data))

\* opaque values and payloads tried: every mix of the octets 0 and 255, and
\* the octets 1..8 of the parse test (ping.rs:138)
Payloads8 ==
    {p \in [1..8 -> {0, 255}] : TRUE} \cup {<<1, 2, 3, 4, 5, 6, 7, 8>>}
\* frames the constructors make: ACK clear or set
PingFrames ==
    {PingFrame_with_data(d) : d \in Payloads8}
        \cup {PingFrame_new_ack(d) : d \in Payloads8}
\* raw frames handed to from_raw: PING and not, payloads of 7, 8 and 9 octets
RawFrames ==
    {RawFrame(<<Len(p), t, fl, sid>>, p) :
        p \in {<<0, 0, 0, 0, 0, 0, 0>>, <<0, 0, 0, 0, 0, 0, 0, 0, 1>>,
               <<1, 2, 3, 4, 5, 6, 7, 8>>, <<0, 0, 0, 255, 255, 0, 0, 0>>,
               <<255, 0, 0, 0, 0, 0, 0, 1>>},
        t \in {0, PING_FRAME_TYPE}, fl \in {0, 1, 2, 3}, sid \in {0, 1}}

\* serialize_frame(&frame) (ping.rs:152)
PingSerialize ==
    /\ role = "codec" /\ last.op = "frame"
    /\ last' = [op |-> "serialize", frame |-> last.frame,
                bytes |-> PingFrame_serialize_into(last.frame)]
    /\ UNCHANGED <<role, sent, nrecv, streams, nsettings, mark,
                 simple_server, async_client, settings>>

\* the serialized octets read back as a RawFrame and parsed
PingParseSerialized ==
    /\ role = "codec" /\ last.op = "serialize"
    /\ last' = [op |-> "round_trip", frame |-> last.frame,
                bytes |-> last.bytes,
                parsed |-> PingFrame_from_raw(RawFrame_parse(last.bytes))]
    /\ UNCHANGED <<role, sent, nrecv, streams, nsettings, mark,
                 simple_server, async_client, settings>>

\* PingFrame::from_raw(&raw) (ping.rs:123)
PingFromRaw ==
    /\ role = "codec" /\ last.op = "raw"
    /\ last' = [op |-> "from_raw", raw |-> last.raw,
                parsed |-> PingFrame_from_raw(last.raw)]
    /\ UNCHANGED <<role, sent, nrecv, streams, nsettings, mark,
                 simple_server, async_client, settings>>

InitPing ==
    /\ role = "codec"
    /\ sent = <<>>
    /\ nrecv = 0
    /\ streams = <<>>
    /\ nsettings = 0
    /\ mark = 0
    /\ simple_server = NoSimpleServer
    /\ async_client = NoClient
    /\ settings = SettingsState_default
    /\ last \in {[op |-> "frame", frame |-> f] : f \in PingFrames}
           \cup {[op |-> "raw", raw |-> r] : r \in RawFrames}

NextPing ==
    \/ PingSerialize
    \/ PingParseSerialized
    \/ PingFromRaw

SpecPing == InitPing /\ [][NextPing]_vars

(************ SimpleServer::handle_next (server/mod.rs:133-194) ************)
\* EndStream::No (server/mod.rs:171)
EndStream_No == FALSE

\* Response { stream_id, headers, body }, what the handler returns
Response(stream_id, headers, body) ==
    [stream_id |-> stream_id, headers |-> headers, body |-> body]

\* bodies a handler may answer with: none, one chunk, several chunks
HandlerBodies == {<<>>, <<7>>, <<7, 8, 9>>, <<7, 8, 9, 10, 11>>}

\* the frames of requests a client sends
RequestFrames ==
    {HeadersFrame(s, "h1", e) : s \in StreamIds, e \in BOOLEAN}
        \cup {DataFrame(s, <<1>>, e) : s \in StreamIds, e \in BOOLEAN}

\* SimpleServer::handle_requests (server/mod.rs:148): the handler is invoked
\* for each stream that is closed on the remote side, in iteration order;
\* handler[id] is the body it answers the request on stream id with
SimpleServer_handle_requests(ss, handler) ==
    LET closed == SelectSeq(ss, Stream_is_closed_remote)
    IN  [i \in 1..Len(closed) |->
            Response(closed[i].id, "h2", handler[closed[i].id])]

RECURSIVE SimpleServer_prepare_responses_end(_, _)
\* variant of prepare_responses used to test the claims below
SimpleServer_prepare_responses_end(c, responses) ==
    IF responses = <<>> THEN Result(Ok, c)
    ELSE LET r == Head(responses)
             s == ServerConnection_start_response(c, r.headers, r.stream_id,
                                                  r.body = <<>>)
         IN  IF s.res # Ok THEN s
             ELSE SimpleServer_prepare_responses_end(
                      [s.c EXCEPT !.streams = ServerConnection_set_full_data(
                                                  @, r.stream_id, r.body)],
                      Tail(responses))

RECURSIVE SimpleServer_prepare_responses(_, _)
\* SimpleServer::prepare_responses (server/mod.rs:166): for each response the
\* headers are sent with EndStream::No and the body is staged in the stream
SimpleServer_prepare_responses(c, responses) ==
    IF responses = <<>> THEN Result(Ok, c)
    ELSE LET r == Head(responses)
             s == ServerConnection_start_response(c, r.headers, r.stream_id,
                                                  EndStream_No)
         IN  IF s.res # Ok THEN s
             ELSE SimpleServer_prepare_responses(
                      [s.c EXCEPT !.streams = ServerConnection_set_full_data(
                                                  @, r.stream_id, r.body)],
                      Tail(responses))

\* variant of reap_streams used to test the claims below
SimpleServer_reap_streams_keep(ss) == ss

\* SimpleServer::reap_streams (server/mod.rs:190)
SimpleServer_reap_streams(ss) == get_closed(ss).state

\* the connection of the SimpleServer while a call runs
ServerConn == Conn("server", sent, streams)

\* handle_next, first statement: self.conn.handle_next_frame(..)
HandleNext_handle_next_frame ==
    /\ role = "simple_server" /\ simple_server.pc = "idle"
    /\ nrecv < MaxRecv
    /\ \E f \in RequestFrames :
         LET r == ServerConnection_handle_next_frame(ServerConn, f)
         IN  /\ sent' = r.c.sent
             /\ streams' = r.c.streams
             /\ nsettings' = IF IsSettingsNonAck(f) THEN nsettings + 1
                               ELSE nsettings
             /\ last' = [op |-> "handle_next_frame", frame |-> f,
                         res |-> r.res]
    /\ nrecv' = nrecv + 1
    /\ mark' = Len(sent)
    /\ simple_server' = [simple_server EXCEPT !.pc = "handle_requests"]
    /\ UNCHANGED <<role, async_client, settings>>

\* handle_next, second statement: self.handle_requests()
HandleNext_handle_requests ==
    /\ role = "simple_server" /\ simple_server.pc = "handle_requests"
    /\ \E handler \in [StreamIds -> HandlerBodies] :
         LET rs == SimpleServer_handle_requests(streams, handler)
         IN  /\ simple_server' =
                    [simple_server EXCEPT
                        !.pc = "prepare_responses",
                        !.responses = rs,
                        !.handled = @ \o [i \in 1..Len(rs) |-> rs[i].stream_id]]
             /\ last' = [op |-> "handle_requests", responses |-> rs]
    /\ mark' = Len(sent)
    /\ UNCHANGED <<role, sent, nrecv, streams, nsettings, async_client, settings>>

\* handle_next, third statement: self.prepare_responses(responses)
HandleNext_prepare_responses ==
    /\ role = "simple_server" /\ simple_server.pc = "prepare_responses"
    /\ LET rs == simple_server.responses
           r == SimpleServer_prepare_responses(ServerConn, rs)
       IN  /\ sent' = r.c.sent
           /\ streams' = r.c.streams
           /\ simple_server' =
                  [simple_server EXCEPT
                      !.pc = "flush_streams",
                      !.responses = <<>>,
                      !.staged = @ \o rs]
           /\ last' = [op |-> "prepare_responses", responses |-> rs,
                       res |-> r.res]
    /\ mark' = Len(sent)
    /\ UNCHANGED <<role, nrecv, nsettings, async_client, settings>>

\* handle_next, fourth statement: one turn of the loop of flush_streams
\* (server/mod.rs:183): send_next_data, again while it returns Sent
HandleNext_flush_streams ==
    /\ role = "simple_server" /\ simple_server.pc = "flush_streams"
    /\ LET r == ServerConnection_send_next_data(ServerConn)
       IN  /\ sent' = r.c.sent
           /\ streams' = r.c.streams
           /\ simple_server' =
                  [simple_server EXCEPT
                      !.pc = IF r.status = "Sent" THEN "flush_streams"
                             ELSE "reap_streams"]
           /\ last' = [op |-> "send_next_data", status |-> r.status,
                       res |-> r.res, before |-> streams]
    /\ mark' = Len(sent)
    /\ UNCHANGED <<role, nrecv, nsettings, async_client, settings>>

\* handle_next, fifth statement: self.reap_streams(), then Ok(())
HandleNext_reap_streams ==
    /\ role = "simple_server" /\ simple_server.pc = "reap_streams"
    /\ streams' = SimpleServer_reap_streams(streams)
    /\ simple_server' = [simple_server EXCEPT !.pc = "idle"]
    /\ last' = [op |-> "reap_streams", before |-> streams]
    /\ mark' = Len(sent)
    /\ UNCHANGED <<role, sent, nrecv, nsettings, async_client, settings>>

\* the SimpleServer that SimpleServer::new returned Ok with: the preface was
\* read, the settings were exchanged
InitSimpleServer ==
    LET r == SimpleServer_new(Conn("server", <<>>, <<>>), CLIENT_PREFACE,
                              SettingsFrame_new)
    IN  /\ role = "simple_server"
        /\ sent = r.c.sent
        /\ nrecv = 0
        /\ streams = r.c.streams
        /\ nsettings = 1
        /\ last = [op |-> "new", preface |-> CLIENT_PREFACE,
                   frame |-> SettingsFrame_new, res |-> r.res]
        /\ mark = 0
        /\ simple_server = [pc |-> "idle", responses |-> <<>>,
                            handled |-> <<>>, staged |-> <<>>]
        /\ async_client = NoClient
        /\ settings = SettingsState_default

NextSimpleServer ==
    \/ HandleNext_handle_next_frame
    \/ HandleNext_handle_requests
    \/ HandleNext_prepare_responses
    \/ HandleNext_flush_streams
    \/ HandleNext_reap_streams

SpecSimpleServer == InitSimpleServer /\ [][NextSimpleServer]_vars

\* the loop of flush_streams and the statements around it are not suspended
\* by anything: a handle_next that has begun runs on
FairSimpleServer == SpecSimpleServer /\ WF_vars(NextSimpleServer)

(******* a ServerConnection whose caller stages several responses *********)
\* (the calls SimpleServer makes on its connection, server/mod.rs:166-186,
\* made by a caller that has more than one stream to answer at a time)
\* conn.handle_next_frame(): a HEADERS frame opens a stream
DataHandleNextFrame ==
    /\ role = "server_data"
    /\ \E id \in StreamIds :
         /\ ~HasStream(streams, id)
         /\ LET f == HeadersFrame(id, "h1", TRUE)
                r == ServerConnection_handle_next_frame(ServerConn, f)
            IN  /\ sent' = r.c.sent
                /\ streams' = r.c.streams
                /\ nsettings' = IF IsSettingsNonAck(f) THEN nsettings + 1
                                  ELSE nsettings
                /\ last' = [op |-> "handle_next_frame", frame |-> f,
                            res |-> r.res]
    /\ nrecv' = nrecv + 1
    /\ mark' = Len(sent)
    /\ UNCHANGED <<role, simple_server, async_client, settings>>

\* stream.set_full_data(body) on a stream that has no body staged yet
DataSetFullData ==
    /\ role = "server_data"
    /\ \E id \in StreamIds, body \in HandlerBodies :
         /\ HasStream(streams, id)
         /\ GetStream(streams, id).data = None
         /\ streams' = ServerConnection_set_full_data(streams, id, body)
         /\ last' = [op |-> "set_full_data", stream_id |-> id, body |-> body]
    /\ mark' = Len(sent)
    /\ UNCHANGED <<role, sent, nrecv, nsettings, simple_server, async_client, settings>>

\* conn.send_next_data()
DataSendNextData ==
    /\ role = "server_data"
    /\ LET r == ServerConnection_send_next_data(ServerConn)
       IN  /\ sent' = r.c.sent
           /\ streams' = r.c.streams
           /\ last' = [op |-> "send_next_data", status |-> r.status,
                       res |-> r.res, before |-> streams]
    /\ mark' = Len(sent)
    /\ UNCHANGED <<role, nrecv, nsettings, simple_server, async_client, settings>>

InitServerData ==
    /\ role = "server_data"
    /\ sent = <<>>
    /\ nrecv = 0
    /\ streams = <<>>
    /\ nsettings = 0
    /\ last = [op |-> "none"]
    /\ mark = 0
    /\ simple_server = NoSimpleServer
    /\ async_client = NoClient
    /\ settings = SettingsState_default

NextServerData ==
    \/ DataHandleNextFrame
    \/ DataSetFullData
    \/ DataSendNextData

SpecServerData == InitServerData /\ [][NextServerData]_vars

(************ the asynchronous Client (spec 4.4, 5 and 6) *****************)
\* the producer threads: thread i issues one GET, with the user tag i
Producers == {0, 1, 2}
\* the path of the request that carries the user tag i
Path(i) == <<"path", i>>

\* a Client right after with_connector: nothing queued, nothing in flight
Client_with_connector ==
    [pc |-> "running", todo |-> Producers, refused |-> {}, queue |-> <<>>,
     next_id |-> 1, pending |-> <<>>, delivered |-> <<>>, halted |-> <<>>]

\* the user tag kept for stream id
TagOf(pending, id) ==
    pending[CHOOSE k \in 1..Len(pending) : pending[k].stream_id = id].tag

\* client.get(path, headers, user_tag) on a send handle: the request goes to
\* the bounded queue; a halted Client refuses it
Client_get(ac, tag) ==
    IF ac.pc = "halted"
    THEN [ac EXCEPT !.todo = @ \ {tag}, !.refused = @ \cup {tag}]
    ELSE [ac EXCEPT !.todo = @ \ {tag},
                    !.queue = Append(@, [path |-> Path(tag), tag |-> tag])]

\* the service thread takes the oldest queued request and sends it:
\* send_request(headers, body, user_tag) allocates the next odd stream id,
\* inserts a stream tagged with user_tag and queues the frames
Client_send_request(c, ac) ==
    LET q == Head(ac.queue)
        id == ac.next_id
        c1 == [c EXCEPT !.streams = ClientSession_new_stream(@, id)]
        r == ClientConnection_send_request(c1,
                 [stream_id |-> id, headers |-> q.path, body |-> <<>>])
    IN  [c |-> r.c,
         ac |-> [ac EXCEPT !.queue = Tail(@), !.next_id = id + 2,
                           !.pending = Append(@, [stream_id |-> id,
                                                  tag |-> q.tag])]]

\* variant of handle_next_frame used to test the claims below
Client_handle_next_frame_fifo(c, ac, f) ==
    LET r == ClientConnection_handle_next_frame(c, f)
        h == ClientSession_get_closed(r.c.streams)
        InFlight(p) == HasStream(h.state, p.stream_id)
    IN  [c |-> [r.c EXCEPT !.streams = h.state],
         ac |-> [ac EXCEPT
                   !.pending = SelectSeq(@, InFlight),
                   !.delivered = @ \o
                       [k \in 1..Len(h.closed) |->
                           [tag |-> ac.pending[k].tag,
                            stream_id |-> h.closed[k].id,
                            headers |-> h.closed[k].headers,
                            body |-> h.closed[k].body]]]]

\* the service thread handles one frame, harvests the closed streams and
\* hands each one to the delegate with the user tag kept for its stream
Client_handle_next_frame(c, ac, f) ==
    LET r == ClientConnection_handle_next_frame(c, f)
        h == ClientSession_get_closed(r.c.streams)
        InFlight(p) == HasStream(h.state, p.stream_id)
    IN  [c |-> [r.c EXCEPT !.streams = h.state],
         ac |-> [ac EXCEPT
                   !.pending = SelectSeq(@, InFlight),
                   !.delivered = @ \o
                       [k \in 1..Len(h.closed) |->
                           [tag |-> TagOf(ac.pending, h.closed[k].id),
                            stream_id |-> h.closed[k].id,
                            headers |-> h.closed[k].headers,
                            body |-> h.closed[k].body]]]]

\* shutdown of the service thread: the delegate's halted callback gets the
\* counts of the requests in flight and of those still queued
Client_halt(ac) ==
    [ac EXCEPT !.pc = "halted",
               !.halted = Append(@, [pending |-> Len(ac.pending),
                                     queued |-> Len(ac.queue)])]

\* the frames a server may answer with: on a stream that is in flight,
\* HEADERS first and one DATA frame after it
ResponseFrames(ss) ==
    {HeadersFrame(ss[k].id, "h1", e) :
        k \in {j \in 1..Len(ss) : ss[j].headers = None}, e \in BOOLEAN}
    \cup {DataFrame(ss[k].id, <<1>>, e) :
        k \in {j \in 1..Len(ss) : ss[j].headers # None /\ ss[j].body = <<>>},
        e \in BOOLEAN}

\* a producer thread calls this.get(path, &[], i) (client/tests.rs:84)
AsyncGet ==
    /\ role = "async_client"
    /\ \E i \in async_client.todo :
         /\ async_client.pc = "running" =>
                Len(async_client.queue) < QueueCap
         /\ async_client' = Client_get(async_client, i)
         /\ last' = [op |-> "get", tag |-> i]
    /\ mark' = Len(sent)
    /\ UNCHANGED <<role, sent, nrecv, streams, nsettings, simple_server, settings>>

\* the service thread sends the oldest queued request
AsyncSendRequest ==
    /\ role = "async_client"
    /\ async_client.pc = "running"
    /\ async_client.queue # <<>>
    /\ LET r == Client_send_request(Conn("client", sent, streams),
                                    async_client)
       IN  /\ sent' = r.c.sent
           /\ streams' = r.c.streams
           /\ async_client' = r.ac
           /\ last' = [op |-> "send_request",
                       stream_id |-> async_client.next_id]
    /\ mark' = Len(sent)
    /\ UNCHANGED <<role, nrecv, nsettings, simple_server, settings>>

\* the service thread handles the next frame of a response
AsyncHandleNextFrame ==
    /\ role = "async_client"
    /\ async_client.pc = "running"
    /\ \E f \in ResponseFrames(streams) :
         LET r == Client_handle_next_frame(Conn("client", sent, streams),
                                           async_client, f)
         IN  /\ sent' = r.c.sent
             /\ streams' = r.c.streams
             /\ async_client' = r.ac
             /\ last' = [op |-> "handle_next_frame", frame |-> f]
    /\ mark' = Len(sent)
    /\ UNCHANGED <<role, nrecv, nsettings, simple_server, settings>>

\* the service thread stops: the handles were dropped or an error was fatal
AsyncHalt ==
    /\ role = "async_client"
    /\ async_client.pc = "running"
    /\ async_client' = Client_halt(async_client)
    /\ last' = [op |-> "halt"]
    /\ mark' = Len(sent)
    /\ UNCHANGED <<role, sent, nrecv, streams, nsettings, simple_server, settings>>

InitAsync ==
    /\ role = "async_client"
    /\ sent = <<>>
    /\ nrecv = 0
    /\ streams = <<>>
    /\ nsettings = 0
    /\ last = [op |-> "none"]
    /\ mark = 0
    /\ simple_server = NoSimpleServer
    /\ async_client = Client_with_connector
    /\ settings = SettingsState_default

NextAsync ==
    \/ AsyncGet
    \/ AsyncSendRequest
    \/ AsyncHandleNextFrame
    \/ AsyncHalt

SpecAsync == InitAsync /\ [][NextAsync]_vars

(************* a connection that records the peer's settings ***************)
\* the settings a SETTINGS frame may carry
SettingEntries ==
    {[id |-> "MaxConcurrentStreams", value |-> v] : v \in {0, 1, 100}}
        \cup {[id |-> "InitialWindowSize", value |-> 100]}
\* a non-ACK SETTINGS frame with the given payload
SettingsFrame_with(entries) ==
    [type |-> "SETTINGS", ack |-> FALSE, settings |-> entries]
\* the frames the peer may send: those of Inbound, and SETTINGS frames that
\* carry one or two settings
SettingsInbound ==
    Inbound
        \cup {SettingsFrame_with(<<e>>) : e \in SettingEntries}
        \cup {SettingsFrame_with(<<e1, e2>>) :
                 e1 \in SettingEntries, e2 \in SettingEntries}

\* the settings of a frame's payload applied, in order, to the local state
RECURSIVE apply_settings(_, _)
apply_settings(st, entries) ==
    IF entries = <<>> THEN st
    ELSE apply_settings(
             IF Head(entries).id = "MaxConcurrentStreams"
             THEN SettingsState_set_max_concurrent_streams(
                      st, Head(entries).value)
             ELSE st,
             Tail(entries))

\* handle_frame for a connection with a SettingsState: a non-ACK SETTINGS
\* frame is applied to the local state and acknowledged
handle_frame_settings(c, st, f) ==
    [r |-> handle_frame(c, f),
     settings |-> IF IsSettingsNonAck(f) /\ "settings" \in DOMAIN f
                  THEN apply_settings(st, f.settings)
                  ELSE st]

\* conn.handle_next_frame() on a connection that records settings
SettingsHandleNextFrame ==
    /\ role = "settings"
    /\ nrecv < MaxRecv
    /\ Len(sent) < MaxSent
    /\ \E f \in SettingsInbound :
         LET h == handle_frame_settings(Conn("client", sent, streams),
                                        settings, f)
         IN  /\ sent' = h.r.c.sent
             /\ streams' = h.r.c.streams
             /\ settings' = h.settings
             /\ nrecv' = nrecv + 1
             /\ nsettings' = IF IsSettingsNonAck(f) THEN nsettings + 1
                               ELSE nsettings
             /\ last' = [op |-> "handle_next_frame", frame |-> f,
                         res |-> h.r.res, before |-> settings]
             /\ mark' = Len(sent)
    /\ UNCHANGED <<role, simple_server, async_client>>

InitSettings ==
    /\ role = "settings"
    /\ sent = <<>>
    /\ nrecv = 0
    /\ streams = <<>>
    /\ nsettings = 0
    /\ last = [op |-> "none"]
    /\ mark = 0
    /\ simple_server = NoSimpleServer
    /\ async_client = NoClient
    /\ settings = SettingsState_default

NextSettings == SettingsHandleNextFrame

SpecSettings == InitSettings /\ [][NextSettings]_vars

(************ a ClientConnection whose transport may fail ******************)
\* what the transport does with the next two sends: TRUE is a failure
Faults == {<<>>, <<TRUE>>, <<FALSE, TRUE>>, <<TRUE, FALSE>>}

\* conn.send_request(req) on a ClientConnection whose sender may fail
FaultySendRequest ==
    /\ role = "client_faulty"
    /\ Len(sent) + 2 <= MaxSent
    /\ \E req \in Requests, faults \in Faults :
         LET r == ClientConnection_send_request(
                      ConnFaulty("client", sent, streams, faults), req)
         IN  /\ sent' = r.c.sent
             /\ streams' = r.c.streams
             /\ last' = [op |-> "send_request", req |-> req,
                         faults |-> faults, res |-> r.res, before |-> sent]
             /\ mark' = Len(sent)
    /\ UNCHANGED <<role, nrecv, nsettings, simple_server, async_client,
                 settings>>

\* conn.handle_next_frame() on the same connection: the reply to a frame
\* may fail to go out
FaultyHandleNextFrame ==
    /\ role = "client_faulty"
    /\ nrecv < MaxRecv
    /\ Len(sent) < MaxSent
    /\ \E f \in Inbound, faults \in Faults :
         LET r == ClientConnection_handle_next_frame(
                      ConnFaulty("client", sent, streams, faults), f)
         IN  /\ sent' = r.c.sent
             /\ streams' = r.c.streams
             /\ nrecv' = nrecv + 1
             /\ nsettings' = IF IsSettingsNonAck(f) THEN nsettings + 1
                               ELSE nsettings
             /\ last' = [op |-> "handle_next_frame", frame |-> f,
                         faults |-> faults, res |-> r.res, before |-> sent]
             /\ mark' = Len(sent)
    /\ UNCHANGED <<role, simple_server, async_client, settings>>

InitFaulty ==
    /\ role = "client_faulty"
    /\ sent = <<>>
    /\ nrecv = 0
    /\ streams = <<>>
    /\ nsettings = 0
    /\ last = [op |-> "none"]
    /\ mark = 0
    /\ simple_server = NoSimpleServer
    /\ async_client = NoClient
    /\ settings = SettingsState_default

NextFaulty ==
    \/ FaultySendRequest
    \/ FaultyHandleNextFrame

SpecFaulty == InitFaulty /\ [][NextFaulty]_vars

(******************************* claims ************************************)
\* the frames the most recent call appended to the outbound sequence
Appended == SubSeq(sent, mark + 1, Len(sent))

IsConn == role \in {"client", "server"}

NonAckSettings(f) == f.type = "SETTINGS" /\ f.ack = FALSE

\* C1: ClientConnection::init returns Ok if and only if the first frame the
\* receive side yields is a SETTINGS frame without ACK; for any other first
\* frame it returns an error.
C1_InitOkIffSettings ==
    (role = "client" /\ last.op = "init") =>
        /\ (last.res = Ok) <=> NonAckSettings(last.frame)
        /\ ~NonAckSettings(last.frame) => last.res # Ok

C1_Witness ==
    /\ role = "client" /\ last.op = "init"
    /\ last.frame = SettingsFrame_new_ack
    /\ last.res # Ok

\* C2: after a ClientConnection::init that returns Ok, exactly one frame has
\* been consumed and the outbound sequence holds exactly one frame, a
\* SETTINGS frame with ACK set.
C2_InitOkAcks ==
    (role = "client" /\ last.op = "init" /\ last.res = Ok) =>
        /\ nrecv = 1
        /\ Len(sent) = 1
        /\ sent[1].type = "SETTINGS" /\ sent[1].ack = TRUE

C2_Witness ==
    /\ role = "client" /\ last.op = "init" /\ last.res = Ok
    /\ last.frame = SettingsFrame_new

\* C3: when the first frame received during ClientConnection::init is not a
\* non-ACK SETTINGS frame (a DATA frame on stream 1, say), the error is of
\* the PreambleMismatch kind.
C3_InitErrorKind ==
    (role = "client" /\ last.op = "init" /\ ~NonAckSettings(last.frame)) =>
        last.res = PreambleMismatch

C3_Witness ==
    /\ role = "client" /\ last.op = "init"
    /\ last.frame.type = "DATA" /\ last.frame.stream_id = 1
    /\ last.res = PreambleMismatch

\* the number of SETTINGS frames with ACK in a frame sequence
NumSettingsAcks(fs) ==
    Cardinality({i \in 1..Len(fs) : fs[i].type = "SETTINGS" /\ fs[i].ack})

\* C4: the number of SETTINGS-ACK frames enqueued equals the number of
\* non-ACK SETTINGS frames received: each received non-ACK SETTINGS makes the
\* call enqueue exactly one SETTINGS-ACK, a received SETTINGS with ACK makes
\* it enqueue nothing.
C4_OneAckPerSettings ==
    IsConn =>
        /\ NumSettingsAcks(sent) = nsettings
        /\ (last.op = "handle_next_frame" /\ last.frame.type = "SETTINGS") =>
               IF last.frame.ack THEN Appended = <<>>
               ELSE /\ Len(Appended) = 1
                    /\ Appended[1].type = "SETTINGS" /\ Appended[1].ack = TRUE

C4_Witness ==
    /\ role = "client" /\ last.op = "handle_next_frame"
    /\ NonAckSettings(last.frame)
    /\ nsettings = 2 /\ NumSettingsAcks(sent) = 2

\* C5: for every received PING without ACK carrying opaque data D the
\* connection enqueues exactly one PING with ACK set and opaque data D; a
\* received PING with ACK set makes it enqueue nothing.
C5_PingAckEchoes ==
    (IsConn /\ last.op = "handle_next_frame" /\ last.frame.type = "PING") =>
        IF last.frame.flags % 2 = 1 THEN Appended = <<>>
        ELSE /\ Len(Appended) = 1
             /\ Appended[1].type = "PING"
             /\ Appended[1].flags % 2 = 1
             /\ Appended[1].opaque_data = last.frame.opaque_data

C5_Witness ==
    /\ IsConn /\ last.op = "handle_next_frame"
    /\ last.frame = PingFrame_with_data(258)
    /\ Appended = <<[type |-> "PING", opaque_data |-> 258, flags |-> 1]>>

\* C6: send_request with an empty body enqueues exactly one frame: a HEADERS
\* frame on the request's stream id with END_HEADERS and END_STREAM set; no
\* DATA frame.
C6_NoBodyOneHeaders ==
    (role = "client" /\ last.op = "send_request" /\ last.req.body = <<>>) =>
        /\ Len(Appended) = 1
        /\ Appended[1].type = "HEADERS"
        /\ Appended[1].stream_id = last.req.stream_id
        /\ Appended[1].end_headers /\ Appended[1].end_stream

C6_Witness ==
    /\ role = "client" /\ last.op = "send_request" /\ last.req.body = <<>>
    /\ last.res = Ok /\ Len(Appended) = 1

\* C7: send_request with a non-empty body enqueues exactly two frames in this
\* order: HEADERS with END_HEADERS set and END_STREAM clear, then one DATA
\* frame on the same stream carrying the whole body with END_STREAM set.
C7_BodyHeadersThenData ==
    (role = "client" /\ last.op = "send_request" /\ last.req.body # <<>>) =>
        /\ Len(Appended) = 2
        /\ Appended[1].type = "HEADERS"
        /\ Appended[1].stream_id = last.req.stream_id
        /\ Appended[1].end_headers /\ ~Appended[1].end_stream
        /\ Appended[2].type = "DATA"
        /\ Appended[2].stream_id = last.req.stream_id
        /\ Appended[2].data = last.req.body
        /\ Appended[2].end_stream

C7_Witness ==
    /\ role = "client" /\ last.op = "send_request" /\ last.req.body = <<1>>
    /\ last.res = Ok /\ Len(Appended) = 2

\* the stream ids of the requests sent so far: a client sends HEADERS frames
\* only from send_request, one per request
RequestIdsSent ==
    LET idx == {i \in 1..Len(sent) : sent[i].type = "HEADERS"}
    IN  [k \in 1..Cardinality(idx) |->
            sent[CHOOSE i \in idx : Cardinality({j \in idx : j <= i}) = k].stream_id]

\* C8 as stated: the stream ids of successive send_request calls are odd and
\* strictly increasing, none is 0 or even.
C8_IdsOddIncreasing ==
    role = "client" =>
        /\ \A k \in 1..Len(RequestIdsSent) : RequestIdsSent[k] % 2 = 1
        /\ \A k \in 2..Len(RequestIdsSent) :
               RequestIdsSent[k - 1] < RequestIdsSent[k]

\* C8 as amended: send_request allocates and checks no stream id; every frame
\* of a request goes out on the stream id the caller put in the Request,
\* whatever its parity and whatever ids went before.
C8_SendsOnCallersId ==
    (role = "client" /\ last.op = "send_request") =>
        /\ Appended # <<>>
        /\ \A i \in 1..Len(Appended) :
               Appended[i].stream_id = last.req.stream_id

C8_Witness ==
    /\ role = "client" /\ last.op = "send_request"
    /\ last.req.stream_id = 2
    /\ mark > 0 /\ sent[1].type = "HEADERS" /\ sent[1].stream_id = 2
    /\ Appended[1].stream_id = 2

\* the frames a send call is to put on the wire, from its arguments
FramesOf(call) ==
    CASE call.op = "send_request" ->
           <<[type |-> "HEADERS", stream_id |-> call.req.stream_id,
              headers |-> call.req.headers, end_headers |-> TRUE,
              end_stream |-> (call.req.body = <<>>)]>>
           \o (IF call.req.body = <<>> THEN <<>>
               ELSE <<[type |-> "DATA", stream_id |-> call.req.stream_id,
                       data |-> call.req.body, end_stream |-> TRUE]>>)
      [] call.op = "start_response" ->
           <<[type |-> "HEADERS", stream_id |-> call.stream_id,
              headers |-> call.headers, end_headers |-> TRUE,
              end_stream |-> call.end_stream]>>

\* C9: frames appear in the outbound sequence in the order of the send calls
\* that produced them: every call leaves the frames already queued in place
\* and puts its own frames, in order, after them; a request's DATA frame
\* directly follows its own HEADERS frame.
C9_SendOrder ==
    [][
        /\ Len(sent') >= Len(sent) /\ SubSeq(sent', 1, Len(sent)) = sent
        /\ last'.op \in {"send_request", "start_response"} =>
               sent' = sent \o FramesOf(last')
        /\ last'.op = "send_next_data" =>
               IF last'.status = "Sent"
               THEN /\ Len(sent') = Len(sent) + 1
                    /\ sent'[Len(sent')].type = "DATA"
               ELSE sent' = sent
    ]_vars

C9_Witness ==
    /\ role = "client" /\ last.op = "send_request" /\ last.req.body # <<>>
    /\ mark > 0
    /\ Len(sent) = mark + 2
    /\ sent[mark + 1].type = "HEADERS" /\ sent[mark + 2].type = "DATA"

IsClosedBoth(st) == st.closed_local /\ st.closed_remote

\* C10: harvest law: get_closed returns every closed stream of the session
\* and removes it, so each closed stream is returned exactly once and an
\* immediately repeated harvest returns nothing; the streams that are not
\* closed stay in the session in their original insertion order.
C10_HarvestLaw ==
    (role = "session" /\ last.op = "get_closed") =>
        LET b == last.before
            got == last.closed
        IN  /\ \A i \in 1..Len(b) :
                   IF IsClosedBoth(b[i])
                   THEN /\ Cardinality({k \in 1..Len(got) : got[k] = b[i]}) = 1
                        /\ \A k \in 1..Len(streams) : streams[k].id # b[i].id
                   ELSE /\ \E k \in 1..Len(streams) : streams[k] = b[i]
                        /\ \A k \in 1..Len(got) : got[k].id # b[i].id
            /\ Len(got) + Len(streams) = Len(b)
            /\ \A k \in 1..Len(streams) : ~IsClosedBoth(streams[k])
            /\ \A k, l \in 1..Len(streams) :
                   k < l => StreamIndex(b, streams[k].id)
                                < StreamIndex(b, streams[l].id)

C10_Witness ==
    /\ role = "session" /\ last.op = "get_closed"
    /\ Len(last.before) = 2
    /\ Len(last.closed) = 1 /\ last.closed[1].id = 1
    /\ Len(streams) = 1 /\ streams[1].id = 3

\* the call recorded in last was made on a ClientSession (client.rs:124) or
\* on a ServerSession (server.rs:40), and was one of the stream events
IsClientSession == role = "session"
IsServerSession == role = "server_session"

\* every stream but the one with this id is where and what it was before
\* the call
OthersUnchanged(id) ==
    /\ Len(streams) = Len(last.before)
    /\ \A i \in 1..Len(streams) :
           last.before[i].id # id => streams[i] = last.before[i]

\* C11: client session demultiplexing: new_data_chunk(s, d) appends d to the
\* body of stream s and of no other stream, so each body grows by exactly the
\* chunks addressed to it, in arrival order; new_headers(s, h) changes only
\* the headers of s and end_of_stream(s) only the closed flags of s; every
\* other stream is left unchanged.
C11_Demultiplex ==
    (IsClientSession
       /\ last.op \in {"new_data_chunk", "new_headers", "end_of_stream"}
       /\ HasStream(last.before, last.stream_id)) =>
        LET i == StreamIndex(last.before, last.stream_id)
            old == last.before[i]
            new == streams[i]
        IN  /\ OthersUnchanged(last.stream_id)
            /\ last.op = "new_data_chunk" =>
                   new = [old EXCEPT !.body = old.body \o last.data]
            /\ last.op = "new_headers" =>
                   new = [old EXCEPT !.headers = Some(last.headers)]
            /\ last.op = "end_of_stream" =>
                   /\ new.closed_remote
                   /\ new = [old EXCEPT !.closed_local = new.closed_local,
                                        !.closed_remote = TRUE]

\* two streams are open, stream 3 second; a chunk for stream 3 arrives after
\* an earlier one and lands behind it, stream 1 keeps its own body
C11_Witness ==
    /\ IsClientSession /\ last.op = "new_data_chunk" /\ last.stream_id = 3
    /\ Len(streams) = 2 /\ streams[1].id = 1 /\ streams[2].id = 3
    /\ streams[1].body = <<2>>
    /\ last.before[2].body = <<1>> /\ last.data = <<2>>
    /\ streams[2].body = <<1, 2>>

\* the streams of the session that carry this id
WithId(ss, id) == {i \in 1..Len(ss) : ss[i].id = id}

\* C12: on the server, a HEADERS event for a stream id the session does not
\* hold invokes the stream factory exactly once, with that id, and inserts
\* the stream it made with those headers stored; afterwards the session holds
\* exactly one stream with that id.
C12_HeadersCreateStream ==
    (IsServerSession /\ last.op = "new_headers"
       /\ ~HasStream(last.before, last.stream_id)) =>
        /\ last.created = <<last.stream_id>>
        /\ Cardinality(WithId(streams, last.stream_id)) = 1
        /\ streams = Append(last.before,
               [id |-> last.stream_id, headers |-> Some(last.headers),
                body |-> <<>>, closed_local |-> FALSE,
                closed_remote |-> FALSE, data |-> None])

C12_Witness ==
    /\ IsServerSession /\ last.op = "new_headers" /\ last.stream_id = 3
    /\ Len(last.before) = 1 /\ last.before[1].id = 1
    /\ Len(streams) = 2 /\ streams[2].id = 3
    /\ streams[2].headers = Some(last.headers)
    /\ last.created = <<3>>

\* C13: on the server, a HEADERS event for a stream id the session already
\* holds replaces the stored headers of that stream (trailers) without
\* invoking the factory, without adding a second stream and without
\* discarding the body accumulated so far.
C13_HeadersReplace ==
    (IsServerSession /\ last.op = "new_headers"
       /\ HasStream(last.before, last.stream_id)) =>
        LET i == StreamIndex(last.before, last.stream_id)
        IN  /\ last.created = <<>>
            /\ OthersUnchanged(last.stream_id)
            /\ Cardinality(WithId(streams, last.stream_id)) = 1
            /\ streams[i].body = last.before[i].body
            /\ streams[i] =
                   [last.before[i] EXCEPT !.headers = Some(last.headers)]

C13_Witness ==
    /\ IsServerSession /\ last.op = "new_headers" /\ last.stream_id = 1
    /\ HasStream(last.before, 1)
    /\ GetStream(last.before, 1).headers = Some("h1")
    /\ GetStream(last.before, 1).body = <<1, 2>>
    /\ GetStream(streams, 1).headers = Some("h2")
    /\ GetStream(streams, 1).body = <<1, 2>>
    /\ Len(streams) = Len(last.before)

\* C14: server initialization fails if and only if the first 24 bytes read
\* are not the literal client preface or the frame received next is not a
\* SETTINGS frame without ACK; in every other case it succeeds.
C14_ServerInitFailsIff ==
    last.op = "new" =>
        /\ (last.res # Ok) <=>
               (last.preface # CLIENT_PREFACE \/ ~NonAckSettings(last.frame))
        /\ (last.res = Ok) <=> (role = "server")

\* the bytes differ from the preface in the last byte only and a proper
\* SETTINGS frame follows: initialization fails all the same
C14_Witness ==
    /\ last.op = "new" /\ last.res # Ok
    /\ last.preface = "PRI * HTTP/2.0\r\n\r\nSM\r\n\r\r"
    /\ NonAckSettings(last.frame)
    /\ role = "failed"

\* C15: a session event (new_data_chunk, end_of_stream, and on the client
\* new_headers) that refers to a stream id the session does not hold is
\* ignored: the call returns, no stream is created and every stream of the
\* session is left as it was.
C15_UnknownStreamIgnored ==
    ((IsClientSession \/ IsServerSession)
       /\ \/ last.op \in {"new_data_chunk", "end_of_stream"}
          \/ (IsClientSession /\ last.op = "new_headers")
       /\ ~HasStream(last.before, last.stream_id)) =>
        /\ streams = last.before
        /\ ~HasStream(streams, last.stream_id)

\* the session holds stream 1 with a body; headers for stream 3 arrive at
\* the client session and nothing changes
C15_Witness ==
    /\ IsClientSession /\ last.op = "new_headers" /\ last.stream_id = 3
    /\ Len(last.before) = 1 /\ last.before[1].id = 1
    /\ last.before[1].body # <<>>
    /\ streams = last.before

IsStreamEvent == last.op \in {"new_data_chunk", "new_headers", "end_of_stream"}

\* C16: stream-state law: once end_of_stream has been delivered for a stream
\* its remote-closed flag is set and stays set under every later event, and
\* no later new_data_chunk or new_headers on it is accepted: the body and the
\* headers of the stream stay those accumulated before end_of_stream.
C16_ClosedRemoteFrozen ==
    ((IsClientSession \/ IsServerSession) /\ IsStreamEvent
       /\ HasStream(last.before, last.stream_id)
       /\ GetStream(last.before, last.stream_id).closed_remote) =>
        LET old == GetStream(last.before, last.stream_id)
            new == GetStream(streams, last.stream_id)
        IN  /\ new.closed_remote
            /\ new.body = old.body
            /\ new.headers = old.headers

\* C17 as stated: a stream whose local side is not closed and on which the
\* peer's end-of-stream is observed does not become closed by that, so no
\* harvest removes it; a harvest returns only streams with both flags set.
C17_RemoteEndAloneNotHarvestable ==
    /\ ((IsClientSession \/ IsServerSession) /\ last.op = "end_of_stream"
          /\ HasStream(last.before, last.stream_id)
          /\ ~GetStream(last.before, last.stream_id).closed_local) =>
           ~Stream_is_closed(GetStream(streams, last.stream_id))
    /\ last.op = "get_closed" =>
           \A k \in 1..Len(last.closed) : IsClosedBoth(last.closed[k])

\* C17: a harvest removes exactly the streams that are closed, that is, that
\* have both flags set. On the server end_of_stream sets the remote-closed
\* flag only, so a stream whose local side is open stays in the session; on
\* the client end_of_stream closes the stream outright, so it is harvestable
\* as soon as the peer's end-of-stream is observed.
C17_HarvestOnlyClosed ==
    /\ ((IsClientSession \/ IsServerSession) /\ last.op = "get_closed") =>
           /\ \A k \in 1..Len(last.closed) : IsClosedBoth(last.closed[k])
           /\ \A i \in 1..Len(last.before) :
                  IsClosedBoth(last.before[i]) <=>
                      ~HasStream(streams, last.before[i].id)
    /\ (last.op = "end_of_stream"
          /\ HasStream(last.before, last.stream_id)) =>
           LET old == GetStream(last.before, last.stream_id)
               new == GetStream(streams, last.stream_id)
           IN  /\ IsServerSession =>
                      /\ new.closed_remote
                      /\ new.closed_local = old.closed_local
                      /\ ~old.closed_local => ~Stream_is_closed(new)
               /\ IsClientSession => Stream_is_closed(new)

\* on the client, end_of_stream reaches a stream whose local side was open
\* and leaves it closed
C17_Witness ==
    /\ IsClientSession /\ last.op = "end_of_stream"
    /\ HasStream(last.before, last.stream_id)
    /\ ~GetStream(last.before, last.stream_id).closed_local
    /\ Stream_is_closed(GetStream(streams, last.stream_id))

\* C18: stream ids in a session are unique: no two streams of a session have
\* the same id, and new_stream for an id the session already holds inserts
\* nothing and leaves the stream with that id (headers, body, closed flags)
\* unchanged; the server inserts on HEADERS only when the id is absent.
C18_UniqueIds ==
    (IsClientSession \/ IsServerSession) =>
        /\ \A i, j \in 1..Len(streams) :
               streams[i].id = streams[j].id => i = j
        /\ (last.op = "new_stream"
              /\ HasStream(last.before, last.stream_id)) =>
               streams = last.before
        /\ (IsServerSession /\ last.op = "new_headers") =>
               Len(streams) = Len(last.before)
                   + (IF HasStream(last.before, last.stream_id) THEN 0 ELSE 1)

\* new_stream(1) on a session whose stream 1 has headers, a body and is
\* closed: the stream is still the old one
C18_Witness ==
    /\ IsClientSession /\ last.op = "new_stream" /\ last.stream_id = 1
    /\ HasStream(last.before, 1)
    /\ GetStream(last.before, 1).headers # None
    /\ GetStream(last.before, 1).body # <<>>
    /\ GetStream(last.before, 1).closed_remote
    /\ streams = last.before

\* C19: PING round trip: for every well-formed PingFrame f (any opaque
\* value, ACK set or clear), parsing the octets that serializing f produced
\* yields a frame equal to f.
C19_PingRoundTrip ==
    (role = "codec" /\ last.op = "round_trip") =>
        /\ Len(last.bytes) = 9 + PING_FRAME_LEN
        /\ last.parsed = Some(last.frame)

\* the ACK frame with opaque data 0x0102030405060708 went to its 17 octets
\* and back
C19_Witness ==
    /\ role = "codec" /\ last.op = "round_trip"
    /\ last.frame = PingFrame_new_ack(<<1, 2, 3, 4, 5, 6, 7, 8>>)
    /\ last.bytes = <<0, 0, 8, 6, 1, 0, 0, 0, 0, 1, 2, 3, 4, 5, 6, 7, 8>>
    /\ last.parsed = Some(last.frame)

\* C20: PingFrame::from_raw returns failure whenever the header's payload
\* length is not 8, the frame type is not 0x6 or the stream id is not 0; when
\* it returns a frame, the opaque data is the big-endian 64-bit value of the
\* 8 payload octets (the octets 1..8 give 0x0102030405060708: as a u64 is
\* written here, its octets are the payload in order) and is_ack is true
\* exactly when flag bit 0x1 is set.
C20_FromRaw ==
    (role = "codec" /\ last.op = "from_raw") =>
        LET h == last.raw.header
        IN  /\ (h[1] # 8 \/ h[2] # 6 \/ h[4] # 0) => last.parsed = None
            /\ last.parsed # None =>
                   /\ \A i \in 1..8 :
                          last.parsed[1].opaque_data[i] = last.raw.payload[i]
                   /\ Len(last.parsed[1].opaque_data) = 8
                   /\ PingFrame_is_ack(last.parsed[1]) <=>
                          (h[3] % 2 = 1)
            /\ (last.raw.payload = <<1, 2, 3, 4, 5, 6, 7, 8>>
                  /\ last.parsed # None) =>
                   last.parsed[1].opaque_data = <<1, 2, 3, 4, 5, 6, 7, 8>>

\* the raw frame of the parse test (ping.rs:138): header (8, 0x6, 1, 0) and
\* the octets 1..8
C20_Witness ==
    /\ role = "codec" /\ last.op = "from_raw"
    /\ last.raw = RawFrame(<<8, 6, 1, 0>>, <<1, 2, 3, 4, 5, 6, 7, 8>>)
    /\ last.parsed # None
    /\ last.parsed[1].opaque_data = <<1, 2, 3, 4, 5, 6, 7, 8>>
    /\ PingFrame_is_ack(last.parsed[1])

IsSimpleServer == role = "simple_server"

\* C21 as stated: for a Response with an empty body the HEADERS frame that
\* starts the response carries END_STREAM.
C21_EmptyBodyHeadersEndStream ==
    (IsSimpleServer /\ last.op = "prepare_responses") =>
        \A i \in 1..Len(last.responses) :
            last.responses[i].body = <<>> =>
                /\ Len(Appended) >= i
                /\ Appended[i].type = "HEADERS"
                /\ Appended[i].end_stream

\* C21: prepare_responses starts every response, also one with an empty
\* body, with one HEADERS frame on the response's stream that does not carry
\* END_STREAM, and stages the body, also an empty one, in the stream.
C21_ResponseHeadersOpen ==
    (IsSimpleServer /\ last.op = "prepare_responses") =>
        /\ Len(Appended) = Len(last.responses)
        /\ \A i \in 1..Len(last.responses) :
               LET r == last.responses[i]
               IN  /\ Appended[i] = [type |-> "HEADERS",
                                     stream_id |-> r.stream_id,
                                     headers |-> r.headers,
                                     end_headers |-> TRUE,
                                     end_stream |-> FALSE]
                   /\ HasStream(streams, r.stream_id)
                   /\ GetStream(streams, r.stream_id).data = Some(r.body)

\* a response with an empty body was started: its HEADERS frame is open
C21_Witness ==
    /\ IsSimpleServer /\ last.op = "prepare_responses"
    /\ Len(last.responses) = 1 /\ last.responses[1].body = <<>>
    /\ Len(Appended) = 1
    /\ Appended[1].type = "HEADERS" /\ ~Appended[1].end_stream

\* what a stream is after the event of frame f reached it, and after
\* end_of_stream if f carries END_STREAM (on the client end_of_stream closes
\* both sides, on the server the remote side)
AfterFrame(r, st, f) ==
    LET st1 == IF f.type = "DATA"
               THEN [st EXCEPT !.body = st.body \o f.data]
               ELSE [st EXCEPT !.headers = <<f.headers>>]
    IN  IF ~f.end_stream THEN st1
        ELSE IF r = "server" THEN [st1 EXCEPT !.closed_remote = TRUE]
        ELSE [st1 EXCEPT !.closed_remote = TRUE, !.closed_local = TRUE]

\* C23: handle_next_frame consumes exactly one inbound frame per call and
\* dispatches it: a DATA (HEADERS) frame on stream s reaches the session as
\* new_data_chunk(s) (new_headers(s)), and end_of_stream(s) follows it in the
\* same call if and only if the frame has END_STREAM set; so a HEADERS frame
\* with END_STREAM that opens a stream on the server leaves it created and
\* closed on the remote side.
C23_DispatchOneFrame ==
    [][
        (IsConn /\ last'.op = "handle_next_frame") =>
            LET f == last'.frame
            IN  /\ nrecv' = nrecv + 1
                /\ f.type \in {"DATA", "HEADERS"} =>
                       IF HasStream(streams, f.stream_id)
                       THEN /\ Len(streams') = Len(streams)
                            /\ \A i \in 1..Len(streams) :
                                   streams'[i] =
                                       IF streams[i].id = f.stream_id
                                       THEN AfterFrame(role, streams[i], f)
                                       ELSE streams[i]
                       ELSE IF role = "server" /\ f.type = "HEADERS"
                       THEN streams' = Append(streams,
                                AfterFrame(role,
                                    [id |-> f.stream_id, headers |-> <<>>,
                                     body |-> <<>>, closed_local |-> FALSE,
                                     closed_remote |-> FALSE, data |-> <<>>],
                                    f))
                       ELSE streams' = streams
                /\ f.type \notin {"DATA", "HEADERS"} => streams' = streams
    ]_vars

\* a HEADERS frame with END_STREAM opened stream 1 on the server: the stream
\* is there, with the headers, and closed on the remote side only
C23_Witness ==
    /\ role = "server" /\ last.op = "handle_next_frame"
    /\ last.frame = HeadersFrame(1, "h1", TRUE)
    /\ Len(streams) = 1 /\ streams[1].id = 1
    /\ streams[1].headers = Some("h1") /\ streams[1].body = <<>>
    /\ streams[1].closed_remote /\ ~streams[1].closed_local

\* C24: server initialization sends the server's own SETTINGS frame without
\* ACK before it reads the client's SETTINGS: after a successful init the
\* outbound sequence is exactly [SETTINGS without ACK, SETTINGS with ACK],
\* after one that failed on the frame read the own SETTINGS frame is out
\* already, and when the 24 preface bytes do not match the error is returned
\* with no frame sent.
C24_ServerSettingsFirst ==
    (role \in {"server", "failed"} /\ last.op \in {"init", "new"}) =>
        LET matched == last.op = "new" => last.preface = CLIENT_PREFACE
        IN  /\ last.res = Ok =>
                   sent = <<[type |-> "SETTINGS", ack |-> FALSE],
                            [type |-> "SETTINGS", ack |-> TRUE]>>
            /\ (matched /\ last.res # Ok) =>
                   sent = <<[type |-> "SETTINGS", ack |-> FALSE]>>
            /\ ~matched => (sent = <<>> /\ last.res # Ok)

C24_Witness ==
    /\ role = "server" /\ last.op = "init" /\ last.res = Ok
    /\ Len(sent) = 2
    /\ ~sent[1].ack /\ sent[2].ack
    /\ sent[1].type = "SETTINGS" /\ sent[2].type = "SETTINGS"

RECURSIVE Concat(_)
\* the concatenation of a sequence of byte sequences
Concat(seqs) ==
    IF seqs = <<>> THEN <<>> ELSE Head(seqs) \o Concat(Tail(seqs))

\* the payloads of the DATA frames sent on a stream, in the order sent
PayloadsOn(id) ==
    LET fs == SelectSeq(sent, LAMBDA f : f.type = "DATA" /\ f.stream_id = id)
    IN  Concat([i \in 1..Len(fs) |-> fs[i].data])
\* the bodies staged for a stream id, in the order staged
StagedOn(id) ==
    LET rs == SelectSeq(simple_server.staged, LAMBDA r : r.stream_id = id)
    IN  Concat([i \in 1..Len(rs) |-> rs[i].body])
\* what of a stream's staged buffer is still to be sent
Remaining(ss, id) ==
    IF HasStream(ss, id) /\ GetStream(ss, id).data # <<>>
    THEN GetStream(ss, id).data[1]
    ELSE <<>>

\* C25: every DATA frame emitted by send_next_data carries at most
\* MAX_CHUNK_SIZE bytes, taken in order from the front of one stream's staged
\* buffer, and has END_STREAM set if and only if that buffer is empty after
\* the chunk; per stream, the payloads emitted followed by what is still
\* staged are the staged response body, so that after the flush the payloads
\* alone are the body.
C25_DataChunks ==
    IsSimpleServer =>
        /\ (last.op = "send_next_data" /\ last.status = "Sent") =>
               LET fr == sent[Len(sent)]
                   old == Remaining(last.before, fr.stream_id)
                   new == Remaining(streams, fr.stream_id)
               IN  /\ Len(sent) = mark + 1
                   /\ fr.type = "DATA"
                   /\ Len(fr.data) <= MAX_CHUNK_SIZE
                   /\ old = fr.data \o new
                   /\ Len(fr.data) < MAX_CHUNK_SIZE => new = <<>>
                   /\ fr.end_stream <=> (new = <<>>)
        /\ \A id \in StreamIds :
               PayloadsOn(id) \o Remaining(streams, id) = StagedOn(id)
        /\ simple_server.pc \in {"reap_streams", "idle"} =>
               \A id \in StreamIds : PayloadsOn(id) = StagedOn(id)

\* a body of five bytes went out on stream 1 in more than one DATA frame,
\* the last of them with END_STREAM
C25_Witness ==
    /\ IsSimpleServer /\ simple_server.pc = "reap_streams"
    /\ simple_server.staged = <<Response(1, "h2", <<7, 8, 9, 10, 11>>)>>
    /\ PayloadsOn(1) = <<7, 8, 9, 10, 11>>
    /\ Len(SelectSeq(sent, LAMBDA f : f.type = "DATA")) > 1
    /\ sent[Len(sent)].type = "DATA" /\ sent[Len(sent)].end_stream
    /\ ~sent[Len(sent) - 1].end_stream

\* a stream has staged data the prioritizer would serve
HasStaged(ss) ==
    \E i \in 1..Len(ss) : ss[i].data # <<>> /\ ~ss[i].closed_local

\* the work a flush has left: the staged bytes not yet sent, and one for
\* every stream whose staged buffer is not yet closed
FlushMeasure(ss) ==
    LET open == SelectSeq(ss, LAMBDA st : st.data # <<>> /\ ~st.closed_local)
    IN  Len(open) + Len(Concat([i \in 1..Len(open) |-> open[i].data[1]]))

HasOutbound(st) == st.data # <<>> /\ ~st.closed_local

C28_ServerStreamsOdd ==
    IsServerSession =>
        /\ \A i \in 1..Len(streams) :
               streams[i].id # 0 /\ streams[i].id % 2 = 1
        /\ (last.op = "new_headers" /\ last.stream_id % 2 = 0) =>
               (streams = last.before /\ last.created = <<>>)

\* C29: on the server, end_of_stream(s) sets only the remote-closed flag of
\* stream s: it does not set the local-closed flag, it does not make s
\* harvestable by itself (a harvest that follows leaves s in the session),
\* and it leaves every other stream, its remote-closed flag included,
\* unchanged.
C29_ServerEndOfStream ==
    (IsServerSession /\ last.op = "end_of_stream"
       /\ HasStream(last.before, last.stream_id)) =>
        LET old == GetStream(last.before, last.stream_id)
            new == GetStream(streams, last.stream_id)
            harvest == get_closed(streams)
        IN  /\ new = [old EXCEPT !.closed_remote = TRUE]
            /\ new.closed_local = old.closed_local
            /\ ~old.closed_local =>
                   /\ ~(new.closed_local /\ new.closed_remote)
                   /\ HasStream(harvest.state, last.stream_id)
                   /\ \A k \in 1..Len(harvest.closed) :
                          harvest.closed[k].id # last.stream_id
            /\ OthersUnchanged(last.stream_id)

\* end_of_stream(1) on a session that holds streams 1 and 3 (server.rs:246):
\* stream 1 is closed on the remote side only, stream 3 is as open as before
C29_Witness ==
    /\ IsServerSession /\ last.op = "end_of_stream" /\ last.stream_id = 1
    /\ Len(streams) = 2
    /\ HasStream(streams, 1) /\ HasStream(streams, 3)
    /\ ~GetStream(last.before, 1).closed_remote
    /\ GetStream(streams, 1).closed_remote
    /\ ~GetStream(streams, 1).closed_local
    /\ ~GetStream(streams, 3).closed_remote

\* C30 as stated: parsing a raw frame as PING yields a failure, and never a
\* frame, for every malformed header: wrong payload length, non-zero stream
\* id, or flag bits other than the defined ACK bit (0x1).
C30_MalformedHeaderFails ==
    (role = "codec" /\ last.op = "from_raw") =>
        LET h == last.raw.header
        IN  (h[1] # PING_FRAME_LEN \/ h[4] # 0 \/ h[3] \div 2 # 0) =>
                last.parsed = None

\* C30: parsing a raw frame as PING yields a failure, and never a frame, for
\* every header with a wrong payload length or a non-zero stream id; the flag
\* bits are not checked: a PING header of length 8 on stream 0 parses to a
\* frame whatever its flags octet, and the frame keeps that octet as
\* received.
C30_LengthAndStreamChecked ==
    (role = "codec" /\ last.op = "from_raw") =>
        LET h == last.raw.header
        IN  /\ (h[1] # PING_FRAME_LEN \/ h[4] # 0) => last.parsed = None
            /\ (h[1] = PING_FRAME_LEN /\ h[2] = PING_FRAME_TYPE /\ h[4] = 0)
                   => /\ last.parsed # None
                      /\ last.parsed[1].flags = h[3]

\* a PING header of length 8 on stream 0 whose flags octet is 0x2, a bit that
\* PING does not define, was parsed to a frame; a header on stream 1 was not
C30_Witness ==
    /\ role = "codec" /\ last.op = "from_raw"
    /\ last.raw.header = <<8, 6, 2, 0>>
    /\ last.parsed # None
    /\ last.parsed[1].flags = 2
    /\ ~PingFrame_is_ack(last.parsed[1])
    /\ PingFrame_from_raw([last.raw EXCEPT !.header[4] = 1]) = None

IsAsyncClient == role = "async_client"

\* the requests the service thread has put on the wire
Issued == {k \in 1..Len(sent) : sent[k].type = "HEADERS"}
\* the calls of the delegate's response callback made for stream id
DeliveriesOf(id) ==
    {k \in 1..Len(async_client.delivered) :
        async_client.delivered[k].stream_id = id}

\* C22: in the async client, where several producer threads enqueue requests
\* onto one service thread, the delegate's response callback is invoked
\* exactly once per completed request and with the user tag that was supplied
\* with that request (the tag of the producer whose path the request carried
\* on the wire), whatever the order in which responses complete; a request
\* still in flight has no delivery; the halted callback is invoked once at
\* shutdown, and not before.
C22_DelegateOncePerRequest ==
    IsAsyncClient =>
        /\ \A k \in Issued :
             LET id == sent[k].stream_id
             IN  /\ HasStream(streams, id) => DeliveriesOf(id) = {}
                 /\ ~HasStream(streams, id) =>
                        /\ Cardinality(DeliveriesOf(id)) = 1
                        /\ \A d \in DeliveriesOf(id) :
                               Path(async_client.delivered[d].tag)
                                   = sent[k].headers
        /\ \A d \in 1..Len(async_client.delivered) :
               \E k \in Issued :
                   sent[k].stream_id = async_client.delivered[d].stream_id
        /\ Len(async_client.halted) =
               (IF async_client.pc = "halted" THEN 1 ELSE 0)

\* three producers got their requests out in the order 2, 0, 1; the
\* responses completed in the order of streams 5, 1, 3, each was delivered
\* with its own tag, and the Client was then shut down
C22_Witness ==
    /\ IsAsyncClient
    /\ Len(async_client.delivered) = 3
    /\ async_client.delivered[1].stream_id = 5
    /\ async_client.delivered[1].tag = 1
    /\ async_client.delivered[2].stream_id = 1
    /\ async_client.delivered[2].tag = 2
    /\ async_client.delivered[3].stream_id = 3
    /\ async_client.delivered[3].tag = 0
    /\ async_client.pc = "halted"
    /\ Len(async_client.halted) = 1

\* the max-concurrent-streams values a frame carries, in payload order
IsMaxConcurrent(e) == e.id = "MaxConcurrentStreams"
MaxConcurrentValues(f) ==
    IF IsSettingsNonAck(f) /\ "settings" \in DOMAIN f
    THEN SelectSeq(f.settings, IsMaxConcurrent)
    ELSE <<>>

\* C31: the connection's max_concurrent_streams setting is 1 until a peer
\* SETTINGS frame changes it (a frame that carries no such value leaves the
\* recorded value as it was); after each received non-ACK SETTINGS frame
\* carrying a max-concurrent-streams value v the recorded value is v, the
\* last value received winning; and recording a setting causes no frame to
\* be sent: the only frame queued for a non-ACK SETTINGS frame is its ACK,
\* with or without a value to record.
C31_MaxConcurrentStreams ==
    role = "settings" =>
        /\ nsettings = 0 =>
               SettingsState_max_concurrent_streams(settings) = 1
        /\ last.op = "handle_next_frame" =>
               LET vals == MaxConcurrentValues(last.frame)
               IN  /\ vals # <<>> =>
                          SettingsState_max_concurrent_streams(settings)
                              = vals[Len(vals)].value
                   /\ vals = <<>> => settings = last.before
                   /\ IsSettingsNonAck(last.frame) =>
                          SubSeq(sent, mark + 1, Len(sent))
                              = <<SettingsFrame_new_ack>>

\* a first SETTINGS frame had set the value to 100; a second one, carrying
\* the values 1 and then 0, left 0 recorded, and two ACKs are queued
C31_Witness ==
    /\ role = "settings" /\ last.op = "handle_next_frame"
    /\ SettingsState_max_concurrent_streams(last.before) = 100
    /\ last.frame = SettingsFrame_with(
           <<[id |-> "MaxConcurrentStreams", value |-> 1],
             [id |-> "MaxConcurrentStreams", value |-> 0]>>)
    /\ SettingsState_max_concurrent_streams(settings) = 0
    /\ sent = <<SettingsFrame_new_ack, SettingsFrame_new_ack>>

\* the transport fails the k-th send of the call
FailsAt(faults, k) == k <= Len(faults) /\ faults[k]

\* C32: errors in send_request propagate out of the call and stop the
\* request: if sending the HEADERS frame fails, send_request returns that
\* error and enqueues no DATA frame for the request (nothing at all is
\* queued); if the HEADERS frame goes out and the DATA frame fails, that
\* error is returned; otherwise the call returns Ok.
C32_SendRequestPropagates ==
    (role = "client_faulty" /\ last.op = "send_request") =>
        LET new == SubSeq(sent, mark + 1, Len(sent))
            body == last.req.body # <<>>
        IN  /\ FailsAt(last.faults, 1) =>
                   /\ last.res = IoError
                   /\ new = <<>>
            /\ (~FailsAt(last.faults, 1) /\ body
                  /\ FailsAt(last.faults, 2)) =>
                   /\ last.res = IoError
                   /\ Len(new) = 1 /\ IsHeaders(new[1])
            /\ last.res = Ok <=>
                   (~FailsAt(last.faults, 1)
                      /\ (body => ~FailsAt(last.faults, 2)))
            /\ last.res # Ok => \A k \in 1..Len(new) : ~IsData(new[k])

\* a request with a body on a transport that fails the first send and would
\* have taken the second: the error came back and no frame was queued
C32_Witness ==
    /\ role = "client_faulty" /\ last.op = "send_request"
    /\ last.req.body = <<1>>
    /\ last.faults = <<TRUE, FALSE>>
    /\ last.res = IoError
    /\ sent = last.before

\* the response HEADERS frames sent so far
ResponseHeaders == {k \in 1..Len(sent) : IsHeaders(sent[k])}
\* the frame of the running handle_next call completed a request
CompletedRequest(f) ==
    (IsHeaders(f) \/ IsData(f)) /\ f.end_stream
        /\ HasStream(streams, f.stream_id)

\* C33: across any sequence of SimpleServer::handle_next calls the request
\* handler is invoked exactly once for each fully received request: a call
\* whose frame closes the remote side of a stream invokes the handler for
\* that stream and for no other, a call whose frame does not invokes it for
\* none; the stream is flushed and removed by reap_streams within the same
\* call, so between calls the session holds no stream whose remote side is
\* closed (none is handed to the handler again, an empty response body
\* included), and there are as many response HEADERS frames as handler
\* invocations, none sent twice.
C33_HandlerOncePerRequest ==
    /\ [](IsSimpleServer =>
            /\ simple_server.pc \in {"idle", "handle_requests"} =>
                   /\ Cardinality(ResponseHeaders)
                          = Len(simple_server.handled)
                   /\ Len(simple_server.staged)
                          = Len(simple_server.handled)
            /\ simple_server.pc = "idle" =>
                   \A i \in 1..Len(streams) :
                       ~Stream_is_closed_remote(streams[i]))
    /\ [][(IsSimpleServer /\ simple_server.pc = "handle_requests") =>
            simple_server'.handled =
                IF CompletedRequest(last.frame)
                THEN Append(simple_server.handled, last.frame.stream_id)
                ELSE simple_server.handled]_vars

\* the request on stream 1 was answered with an empty body and reaped in the
\* first call; the second call, HEADERS without END_STREAM on stream 3,
\* invoked no handler and sent nothing
C33_Witness ==
    /\ IsSimpleServer /\ simple_server.pc = "idle"
    /\ nrecv = 2
    /\ simple_server.handled = <<1>>
    /\ Len(simple_server.staged) = 1
    /\ simple_server.staged[1].body = <<>>
    /\ Cardinality(ResponseHeaders) = 1
    /\ Len(streams) = 1 /\ streams[1].id = 3
    /\ ~Stream_is_closed_remote(streams[1])

====
